---- MODULE Spec2Model ----
(***************************************************************************)
(* Model of the intraday trading core of zerodha-kite-app:                 *)
(*   TradingStrategy (src/src/lib/trading/TradingStrategy.js),             *)
(*   RiskManager and TradingEngine (src/src/lib/trading/RiskManager.js),   *)
(*   with the market-data feed and the order gateway as collaborators.     *)
(*                                                                         *)
(* Numbers.  Quoted prices are whole rupees; every derived amount of money *)
(* (target and stop prices, P&L, capital, limits) is kept in paise.        *)
(* Percentages are written in hundredths of a percent (0.75 percent = 75,  *)
(* PctBase = 100 percent), the size multiplier in percent (0.5 = 50).      *)
(* The quoted prices are multiples of 20, which keeps every amount the     *)
(* strategy computes a whole number of paise.                              *)
(* A JavaScript value that may be undefined or NaN is a tuple: << >> is    *)
(* undefined/NaN, <<n>> is the number n.                                   *)
(*                                                                         *)
(* Time.  The clock is in seconds since midnight of day 0; it moves over   *)
(* a fixed set of instants per day (DayPoints) chosen around the program's *)
(* time constants.  Any number of steps may happen at one instant.         *)
(*                                                                         *)
(* Left out: fields the program only writes (orderId, entryTime, exitTime, *)
(* timestamp, startTime), logging and event emission.                      *)
(*                                                                         *)
(* Specifications.  Spec is the engine with start() callable at any time;  *)
(* SpecSerial is the engine whose start() calls do not overlap.  In both   *)
(* the order gateway is seen by its final answer (success or failure).     *)
(* SpecRisk calls the RiskManager's methods directly with any arguments;   *)
(* SpecOrder calls OrderManager.placeOrder directly, attempt by attempt,   *)
(* against a venue that accepts, answers without an order id, or throws.   *)
(* SpecDay is SpecSerial with initialize() callable again (a new day).     *)
(* SpecBracket calls OrderManager.placeBracketOrder directly, fill check   *)
(* by fill check.  SpecData is a MarketDataService with initialize,        *)
(* disconnect and its polling loop against a venue that may fail each      *)
(* request; SpecRetention is the same service against a venue holding more *)
(* than maxCandles candles of history; SpecCandles is the service with     *)
(* getCandleData and aggregateCandles called on the candles it loaded.     *)
(* SpecMonitor is placeOrder with the status polls of the orders it        *)
(* registers; the venue answers and the timers fire (weak fairness).       *)
(* SpecStop is SpecSerial with closePositionsOnStop set or not: a stop()   *)
(* is followed through getPositions and its liquidation orders, which the  *)
(* venue answers (weak fairness); start() waits for a stop() in progress.  *)
(***************************************************************************)
EXTENDS Integers, Sequences, FiniteSets, Bags, TLC

\* ---------------------------------------------------------------- bounds
MaxDay == 1
MaxLoops == 2
FirstDow == 4

\* ------------------------------------------------------- program constants
initialCapital == 100000
positionSizePercent == 2
initialProfitTarget == 75
initialStopLoss == 35
followUpProfitTarget == 35
followUpStopLoss == 15
followUpSizeReduction == 50
maxTradesPerDay == 5
maxDailyLossPercent == 2
emergencyStopLossPercent == 5
maxConsecutiveLosses == 3
maxPositionSizePercent == 10
AssumedUnitPrice == 100
DemoLastPrice == 19500
DemoOpen == 19450

Paise == 10 * 10
PctBase == 100 * 100
FullSize == 2 * 50

\* -------------------------------------------------- JavaScript numbers
NaN == << >>
Num(n) == <<n>>
IsNum(x) == x # << >>
Val(x) == x[1]
Abs(n) == IF n < 0 THEN 0 - n ELSE n

\* a + b, NaN when either operand is undefined or NaN
JsAdd(a, b) == IF IsNum(a) /\ IsNum(b) THEN Num(Val(a) + Val(b)) ELSE NaN
\* comparisons are false as soon as one operand is undefined or NaN
JsGt(a, b) == IsNum(a) /\ IsNum(b) /\ Val(a) > Val(b)
JsGe(a, b) == IsNum(a) /\ IsNum(b) /\ Val(a) >= Val(b)
JsLt(a, b) == IsNum(a) /\ IsNum(b) /\ Val(a) < Val(b)
JsLe(a, b) == IsNum(a) /\ IsNum(b) /\ Val(a) =< Val(b)
JsAbs(a) == IF IsNum(a) THEN Num(Abs(Val(a))) ELSE NaN
\* a * k / d for integers k, d, as a number in the same unit (exact here)
JsScale(a, k, d) == IF IsNum(a) THEN Num((Val(a) * k) \div d) ELSE NaN

\* --------------------------------------------------------------- time
DaySeconds == 24 * 3600
T(h, m, s) == h * 3600 + m * 60 + s
DayPoints ==
    { T(9, 30, 0), T(10, 0, 0), T(10, 30, 0), T(11, 0, 0), T(15, 15, 30),
      T(15, 30, 30) }
Instants == { d * DaySeconds + p : d \in 0..MaxDay, p \in DayPoints }

DayStart(c) == (c \div DaySeconds) * DaySeconds
getHours(c) == (c % DaySeconds) \div 3600
getMinutes(c) == ((c % DaySeconds) % 3600) \div 60
getDay(c) == (FirstDow + (c \div DaySeconds)) % 7

tradingStartTime == T(10, 0, 0)
tradingEndTime == T(15, 15, 0)
\* parseTime: today's date at the given time of day
parseTime(c, t) == DayStart(c) + t

\* MarketDataService.isMarketOpen
isMarketOpen(c) ==
    /\ getDay(c) # 0
    /\ getDay(c) # 6
    /\ c >= DayStart(c) + T(9, 15, 0)
    /\ c =< DayStart(c) + T(15, 30, 0)

\* a variant without the end of the window
isMarketHours_noEnd(c) ==
    /\ c >= parseTime(c, tradingStartTime)

\* TradingStrategy.isMarketHours
isMarketHours(c) ==
    /\ c >= parseTime(c, tradingStartTime)
    /\ c =< parseTime(c, tradingEndTime)

\* TradingStrategy.getNextCandleEndTime
getNextCandleEndTime(c) == DayStart(c) + (getHours(c) + 1) * 3600

\* a variant that takes every candle for complete
isCandleComplete_always(c, st) == c >= 0

\* TradingStrategy.isCandleComplete
isCandleComplete(c, st) == c >= st.candleEndTime


\* ================================================================ RiskManager
\* RiskManager constructor: dailyStats, riskLimits and the mutable
\* config.initialCapital, all in paise
RiskInit ==
    [ totalPnL |-> Num(0), tradesCount |-> 0, consecutiveLosses |-> 0,
      maxDrawdown |-> Num(0),
      startingCapital |-> Num(initialCapital * Paise),
      initialCapital |-> Num(initialCapital * Paise),
      dailyLossLimit |-> Num((initialCapital * Paise * maxDailyLossPercent) \div 100),
      emergencyStopLimit |-> Num((initialCapital * Paise * emergencyStopLossPercent) \div 100) ]

\* a variant that looks at the number of trades first
checkDailyLimits_countFirst(rk, currentPnL, tradesCount) ==
    IF tradesCount >= maxTradesPerDay
    THEN [canTrade |-> FALSE, reason |-> "Maximum trades per day reached", warnings |-> {}]
    ELSE IF JsGe(JsAbs(currentPnL), rk.dailyLossLimit)
    THEN [canTrade |-> FALSE, reason |-> "Daily loss limit reached", warnings |-> {}]
    ELSE IF JsGe(JsAbs(currentPnL), rk.emergencyStopLimit)
    THEN [canTrade |-> FALSE, reason |-> "Emergency stop loss triggered", warnings |-> {}]
    ELSE IF rk.consecutiveLosses >= maxConsecutiveLosses
    THEN [canTrade |-> FALSE, reason |-> "Maximum consecutive losses reached", warnings |-> {}]
    ELSE [canTrade |-> TRUE, reason |-> "", warnings |-> {}]

\* RiskManager.checkDailyLimits(currentPnL, tradesCount); currentPnL in paise
checkDailyLimits(rk, currentPnL, tradesCount) ==
    IF JsGe(JsAbs(currentPnL), rk.dailyLossLimit)
    THEN [canTrade |-> FALSE, reason |-> "Daily loss limit reached", warnings |-> {}]
    ELSE IF JsGe(JsAbs(currentPnL), rk.emergencyStopLimit)
    THEN [canTrade |-> FALSE, reason |-> "Emergency stop loss triggered", warnings |-> {}]
    ELSE IF tradesCount >= maxTradesPerDay
    THEN [canTrade |-> FALSE, reason |-> "Maximum trades per day reached", warnings |-> {}]
    ELSE IF rk.consecutiveLosses >= maxConsecutiveLosses
    THEN [canTrade |-> FALSE, reason |-> "Maximum consecutive losses reached", warnings |-> {}]
    ELSE [canTrade |-> TRUE, reason |-> "",
          warnings |->
            \* abs(pnl) / initialCapital * 100 > maxDailyLossPercent * 0.7 in
            \* double arithmetic: when abs(pnl) is exactly 1.4 percent of
            \* the capital the left side rounds to 1.4000000000000001 and
            \* the right side is 1.4, so the comparison holds at equality
            (IF JsGe(JsScale(JsAbs(currentPnL), 1000, 1),
                     JsScale(rk.initialCapital, maxDailyLossPercent * 7, 1))
             THEN {"Approaching daily loss limit"} ELSE {})
            \cup
            \* tradesCount >= maxTradesPerDay * 0.8
            (IF tradesCount * 10 >= maxTradesPerDay * 8
             THEN {"Approaching daily trade limit"} ELSE {})]

\* the pnl field of the object handed over as a trade (undefined when the
\* object has no such field)
PnlOf(trade) == IF "pnl" \in DOMAIN trade THEN Num(trade.pnl) ELSE NaN

\* a variant that never ends a run of losses
updateDailyStats_streakKept(rk, trade) ==
    LET total == JsAdd(rk.totalPnL, PnlOf(trade))
    IN [rk EXCEPT
          !.totalPnL = total,
          !.tradesCount = @ + 1,
          !.consecutiveLosses = IF JsLt(PnlOf(trade), Num(0)) THEN @ + 1 ELSE @,
          !.maxDrawdown = IF JsLt(total, @) THEN total ELSE @]

\* RiskManager.updateDailyStats(trade)
updateDailyStats(rk, trade) ==
    LET total == JsAdd(rk.totalPnL, PnlOf(trade))
    IN [rk EXCEPT
          !.totalPnL = total,
          !.tradesCount = @ + 1,
          !.consecutiveLosses = IF JsLt(PnlOf(trade), Num(0)) THEN @ + 1 ELSE 0,
          !.maxDrawdown = IF JsLt(total, @) THEN total ELSE @]

\* RiskManager.shouldTriggerEmergencyStop
shouldTriggerEmergencyStop(rk) == JsGe(JsAbs(rk.totalPnL), rk.emergencyStopLimit)

\* a variant that carries the capital forward but keeps the old limits
RiskResetDailyStats_limitsKept(rk) ==
    LET capital == JsAdd(rk.initialCapital, rk.totalPnL)
    IN [ totalPnL |-> Num(0), tradesCount |-> 0, consecutiveLosses |-> 0,
         maxDrawdown |-> Num(0),
         startingCapital |-> capital,
         initialCapital |-> capital,
         dailyLossLimit |-> rk.dailyLossLimit,
         emergencyStopLimit |-> rk.emergencyStopLimit ]

\* RiskManager.resetDailyStats
RiskResetDailyStats(rk) ==
    LET capital == JsAdd(rk.initialCapital, rk.totalPnL)
    IN [ totalPnL |-> Num(0), tradesCount |-> 0, consecutiveLosses |-> 0,
         maxDrawdown |-> Num(0),
         startingCapital |-> capital,
         initialCapital |-> capital,
         dailyLossLimit |-> JsScale(capital, maxDailyLossPercent, 100),
         emergencyStopLimit |-> JsScale(capital, emergencyStopLossPercent, 100) ]

\* ============================================================ TradingStrategy
NoPosition == << >>

\* TradingStrategy constructor: this.state
StrategyInit ==
    [ currentPosition |-> NoPosition, dailyTrades |-> << >>, dailyPnL |-> 0,
      waitingForCandle |-> FALSE, candleEndTime |-> 0,
      nextPositionSizeMultiplier |-> NaN ]

\* TradingStrategy.calculatePositionSize: the unit price is the constant 100
calculatePositionSize(st) ==
    LET baseSize == ((initialCapital * positionSizePercent) \div 100) \div AssumedUnitPrice
        multiplier == IF IsNum(st.nextPositionSizeMultiplier)
                         /\ Val(st.nextPositionSizeMultiplier) # 0
                      THEN Val(st.nextPositionSizeMultiplier) ELSE FullSize
    IN (baseSize * multiplier) \div FullSize

\* TradingStrategy.generateEntrySignal
generateEntrySignal(md) ==
    [ shouldEnter |-> JsGt(md.ltp, md.open), direction |-> "BUY", entryPrice |-> md.ltp ]

\* TradingStrategy.calculatePnL(position), in paise: the position object has no
\* exitReason field, so targetHit is false for every exit
calculatePnL(position) ==
    LET targetHit == "exitReason" \in DOMAIN position /\ position.exitReason = "TARGET_HIT"
        profitPercent ==
            IF targetHit
            THEN (IF position.isFollowUp THEN followUpProfitTarget ELSE initialProfitTarget)
            ELSE 0 - (IF position.isFollowUp THEN followUpStopLoss ELSE initialStopLoss)
    IN (position.entryPrice * position.quantity * profitPercent) \div (PctBase \div Paise)

\* a variant that books the trade and leaves the position in place
recordTrade_keepsPosition(st, position, exitReason, c) ==
    LET pnl == calculatePnL(position)
        trade == [ entryPrice |-> position.entryPrice, quantity |-> position.quantity,
                   direction |-> position.direction, targetPrice |-> position.targetPrice,
                   stopLossPrice |-> position.stopLossPrice,
                   isFollowUp |-> position.isFollowUp,
                   exitReason |-> exitReason, pnl |-> pnl ]
    IN [st EXCEPT !.dailyTrades = Append(@, trade),
                  !.dailyPnL = @ + pnl]

\* TradingStrategy.recordTrade(position, exitReason)
recordTrade(st, position, exitReason, c) ==
    LET pnl == calculatePnL(position)
        trade == [ entryPrice |-> position.entryPrice, quantity |-> position.quantity,
                   direction |-> position.direction, targetPrice |-> position.targetPrice,
                   stopLossPrice |-> position.stopLossPrice,
                   isFollowUp |-> position.isFollowUp,
                   exitReason |-> exitReason, pnl |-> pnl ]
    IN [st EXCEPT !.dailyTrades = Append(@, trade),
                  !.dailyPnL = @ + pnl,
                  !.currentPosition = NoPosition]

\* a variant that keeps the full size after a target hit
handleTargetHit_fullSize(st, c) ==
    LET position == st.currentPosition[1]
        st1 == recordTrade(st, position, "TARGET_HIT", c)
    IN [ st |-> [st1 EXCEPT !.waitingForCandle = TRUE,
                            !.candleEndTime = getNextCandleEndTime(c),
                            !.nextPositionSizeMultiplier = Num(FullSize)],
         action |-> "TARGET_HIT", trade |-> <<position>>, order |-> << >> ]

\* TradingStrategy.handleTargetHit
handleTargetHit(st, c) ==
    LET position == st.currentPosition[1]
        st1 == recordTrade(st, position, "TARGET_HIT", c)
    IN [ st |-> [st1 EXCEPT !.waitingForCandle = TRUE,
                            !.candleEndTime = getNextCandleEndTime(c),
                            !.nextPositionSizeMultiplier = Num(followUpSizeReduction)],
         action |-> "TARGET_HIT", trade |-> <<position>>, order |-> << >> ]

\* TradingStrategy.handleStopLossHit
handleStopLossHit(st, c) ==
    LET position == st.currentPosition[1]
        st1 == recordTrade(st, position, "STOP_LOSS_HIT", c)
    IN [ st |-> [st1 EXCEPT !.waitingForCandle = TRUE,
                            !.candleEndTime = getNextCandleEndTime(c),
                            !.nextPositionSizeMultiplier = Num(FullSize)],
         action |-> "STOP_LOSS_HIT", trade |-> <<position>>, order |-> << >> ]

\* a variant that exits at the stop whenever the target is not reached
manageExistingPosition_exitsAnyway(st, md, c) ==
    LET position == st.currentPosition[1]
        currentPrice == JsScale(md.ltp, Paise, 1)
    IN IF position.direction = "BUY" /\ JsGe(currentPrice, Num(position.targetPrice))
       THEN handleTargetHit(st, c)
       ELSE handleStopLossHit(st, c)

\* TradingStrategy.manageExistingPosition
manageExistingPosition(st, md, c) ==
    LET position == st.currentPosition[1]
        currentPrice == JsScale(md.ltp, Paise, 1)
    IN IF position.direction = "BUY" /\ JsGe(currentPrice, Num(position.targetPrice))
       THEN handleTargetHit(st, c)
       ELSE IF position.direction = "BUY" /\ JsLe(currentPrice, Num(position.stopLossPrice))
       THEN handleStopLossHit(st, c)
       ELSE [ st |-> st, action |-> "MONITORING", trade |-> << >>, order |-> << >> ]

\* TradingStrategy.enterPosition up to the await of orderManager.placeOrder:
\* the locals of the suspended call
enterPositionSubmit(st, signal, c) ==
    LET positionSize == calculatePositionSize(st)
        entryPrice == Val(signal.entryPrice)
        profitTarget == IF st.currentPosition # NoPosition
                        THEN followUpProfitTarget ELSE initialProfitTarget
        stopLossPercent == IF st.currentPosition # NoPosition
                           THEN followUpStopLoss ELSE initialStopLoss
    IN [ entryPrice |-> entryPrice, quantity |-> positionSize,
         direction |-> signal.direction,
         targetPrice |-> (entryPrice * (PctBase + profitTarget)) \div (PctBase \div Paise),
         stopLossPrice |-> (entryPrice * (PctBase - stopLossPercent)) \div (PctBase \div Paise) ]

\* a variant that takes the position whatever placeOrder returned
enterPositionResume_anyResult(st, order, success, c) ==
    [ st |-> [st EXCEPT !.currentPosition =
                << [ entryPrice |-> order.entryPrice, quantity |-> order.quantity,
                     direction |-> order.direction,
                     targetPrice |-> order.targetPrice,
                     stopLossPrice |-> order.stopLossPrice,
                     isFollowUp |-> (st.currentPosition # NoPosition) ] >>],
      action |-> IF success THEN "POSITION_ENTERED" ELSE "UNDEFINED" ]

\* TradingStrategy.enterPosition after placeOrder has returned
enterPositionResume(st, order, success, c) ==
    IF success
    THEN [ st |-> [st EXCEPT !.currentPosition =
                     << [ entryPrice |-> order.entryPrice, quantity |-> order.quantity,
                          direction |-> order.direction,
                          targetPrice |-> order.targetPrice,
                          stopLossPrice |-> order.stopLossPrice,
                          isFollowUp |-> (st.currentPosition # NoPosition) ] >>],
           action |-> "POSITION_ENTERED" ]
    ELSE [ st |-> st, action |-> "UNDEFINED" ]

\* a variant that enters on a positive signal at any minute
lookForEntry_anyMinute(st, md, c) ==
    LET signal == generateEntrySignal(md)
    IN IF signal.shouldEnter
       THEN [ st |-> st, action |-> "SUBMITTED", trade |-> << >>,
              order |-> << enterPositionSubmit(st, signal, c) >> ]
       ELSE [ st |-> st, action |-> "NO_ACTION", trade |-> << >>, order |-> << >> ]

\* TradingStrategy.lookForEntry
lookForEntry(st, md, c) ==
    LET startTime == parseTime(c, tradingStartTime)
        signal == generateEntrySignal(md)
    IN IF getHours(c) = getHours(startTime) /\ getMinutes(c) = getMinutes(startTime)
          /\ signal.shouldEnter
       THEN [ st |-> st, action |-> "SUBMITTED", trade |-> << >>,
              order |-> << enterPositionSubmit(st, signal, c) >> ]
       ELSE [ st |-> st, action |-> "NO_ACTION", trade |-> << >>, order |-> << >> ]

\* TradingStrategy.execute up to its return or to the await of placeOrder
\* (action "SUBMITTED": an entry order is in flight, order holds the locals)
\* riskCheck: << >> when riskManager.checkDailyLimits was not called, else
\* the call's arguments and result
execute(st, md, c, rk) ==
    IF ~isMarketHours(c)
    THEN [ st |-> st, action |-> "NO_ACTION", trade |-> << >>, order |-> << >>,
           riskCheck |-> << >> ]
    ELSE LET riskCheck == checkDailyLimits(rk, Num(st.dailyPnL), Len(st.dailyTrades))
             r == IF ~riskCheck.canTrade
                  THEN [ st |-> st, action |-> "NO_ACTION", trade |-> << >>, order |-> << >> ]
                  ELSE IF st.waitingForCandle /\ ~isCandleComplete(c, st)
                  THEN [ st |-> st, action |-> "WAITING", trade |-> << >>, order |-> << >> ]
                  ELSE LET st1 == [st EXCEPT !.waitingForCandle = FALSE]
                       IN IF st1.currentPosition # NoPosition
                          THEN manageExistingPosition(st1, md, c)
                          ELSE lookForEntry(st1, md, c)
         IN [ st |-> r.st, action |-> r.action, trade |-> r.trade, order |-> r.order,
              riskCheck |-> << [ currentPnL |-> Num(st.dailyPnL),
                                 tradesCount |-> Len(st.dailyTrades),
                                 consecutiveLosses |-> rk.consecutiveLosses,
                                 result |-> riskCheck ] >> ]


\* ============================================================== TradingEngine
\* Inputs of the model: the prices a feed can report.  The session open is
\* the demo quote's; an entry at DemoLastPrice loses less than the daily loss
\* limit, an entry at the highest price loses more than the emergency limit.
OpenPrice == DemoOpen
Prices == {19000, DemoLastPrice, 72000}

\* ================================================================ OrderManager
retryAttempts == 3

\* OrderManager constructor, and no placeOrder call running.
\* pc: "idle", "venue" (awaiting kite.placeOrder), "delay" (awaiting
\* this.delay), "returned"; retryCount is the parameter of the innermost
\* call; venueCalls and delays count the kite.placeOrder and delay calls of
\* the running placeOrder; result is what the outermost call returned;
\* monitors holds, per order id, the monitor callback of monitorOrder.
OrderManagerInit ==
    [ pc |-> "idle", params |-> << >>, retryCount |-> 0, venueCalls |-> 0,
      delays |-> 0, activeOrders |-> {}, orderHistory |-> << >>, result |-> << >>,
      monitors |-> << >> ]

\* OrderManager.validateOrderParams: the set of error messages.  A field that
\* is missing is "" or 0 here: the code tests fields for falsiness only.
validateOrderParams(params) ==
    { "Missing required field: " \o f[1] :
        f \in { g \in { <<"symbol", params.symbol = "">>,
                         <<"exchange", params.exchange = "">>,
                         <<"transaction_type", params.transaction_type = "">>,
                         <<"quantity", params.quantity = 0>>,
                         <<"order_type", params.order_type = "">>,
                         <<"product", params.product = "">> } : g[2] } }
    \cup (IF params.quantity # 0 /\ params.quantity =< 0
          THEN {"Quantity must be greater than 0"} ELSE {})
    \cup (IF params.order_type = "LIMIT" /\ params.price =< 0
          THEN {"Price is required for limit orders"} ELSE {})
    \cup (IF params.order_type = "SL" /\ params.trigger_price =< 0
          THEN {"Trigger price is required for stop loss orders"} ELSE {})

\* a variant of the catch block that gives up one attempt earlier
placeOrderCatch_oneLess(om) ==
    IF om.retryCount + 1 < retryAttempts
    THEN [om EXCEPT !.pc = "delay", !.delays = @ + 1]
    ELSE [om EXCEPT !.pc = "returned",
                    !.result = << [ success |-> FALSE, attempts |-> om.retryCount + 1 ] >>]

\* OrderManager.placeOrder, the catch block: retry after a delay, or return
\* the failure
placeOrderCatch(om) ==
    IF om.retryCount < retryAttempts
    THEN [om EXCEPT !.pc = "delay", !.delays = @ + 1]
    ELSE [om EXCEPT !.pc = "returned",
                    !.result = << [ success |-> FALSE, attempts |-> om.retryCount + 1 ] >>]

\* OrderManager.placeOrder(orderParams, retryCount) up to its first await:
\* validation (a failure is thrown into the catch block), then the order is
\* submitted to the venue
placeOrderTry(om) ==
    IF validateOrderParams(om.params) # {}
    THEN placeOrderCatch(om)
    ELSE [om EXCEPT !.pc = "venue", !.venueCalls = @ + 1]

\* seconds: monitorOrder polls every 2000 ms until config.orderTimeout
checkInterval == 2
orderTimeout == 30

\* OrderManager.monitorOrder(orderId) up to the await of its first
\* getOrderStatus: at is "status" (awaiting getOrderStatus), "timer"
\* (awaiting setTimeout(monitor, checkInterval)) or "ended"; elapsed is
\* Date.now() - startTime, final whether the latest getOrderStatus found
\* the order COMPLETE, CANCELLED or REJECTED
monitorOrder(om, orderId) ==
    [ k \in DOMAIN om.monitors \cup {orderId} |->
        IF k = orderId THEN [ at |-> "status", elapsed |-> 0, final |-> FALSE ]
        ELSE om.monitors[k] ]

\* OrderManager.placeOrder once kite.placeOrder has answered with an order
\* id: the order is registered, its monitoring starts and success is
\* returned
placeOrderRegister(om, orderId) ==
    [om EXCEPT !.pc = "returned",
               !.activeOrders = @ \cup {orderId},
               !.orderHistory = Append(@, [ orderId |-> orderId, status |-> "PENDING",
                                            attempts |-> om.retryCount + 1 ]),
               !.result = << [ success |-> TRUE, attempts |-> om.retryCount + 1 ] >>,
               !.monitors = monitorOrder(om, orderId)]

\* ------------------------------------------- OrderManager.placeBracketOrder
\* seconds: waitForOrderFill polls every 2000 ms for at most 30000 ms
fillCheckInterval == 2
fillTimeout == 30
\* a getOrderStatus call takes this many seconds
Latencies == {0, 1}
\* what getOrderStatus finds: the order's status at the venue, no such order,
\* or a failing getOrders call
StatusAnswers == {"COMPLETE", "CANCELLED", "REJECTED", "OPEN", "not_found", "error"}

\* OrderManager.getOrderStatus(orderId), its effect on activeOrders: an order
\* found with a final status is deleted
getOrderStatus(om, orderId, answer) ==
    IF answer \in {"COMPLETE", "CANCELLED", "REJECTED"}
    THEN om.activeOrders \ {orderId} ELSE om.activeOrders

\* a variant of monitor that keeps polling a cancelled order
monitor_cancelledGoesOn(om, orderId, answer, latency) ==
    LET elapsed == om.monitors[orderId].elapsed + latency
        ended == answer \in {"COMPLETE", "REJECTED"} \/ elapsed > orderTimeout
    IN [om EXCEPT !.activeOrders = getOrderStatus(om, orderId, answer),
                  !.monitors[orderId] =
                     [ at |-> IF ended THEN "ended" ELSE "timer", elapsed |-> elapsed,
                       final |-> answer \in {"COMPLETE", "CANCELLED", "REJECTED"} ]]

\* OrderManager.monitorOrder, the monitor callback once getOrderStatus has
\* answered: COMPLETE, CANCELLED and REJECTED end the monitoring, so does
\* an elapsed time above orderTimeout; otherwise the next check is
\* scheduled
monitor(om, orderId, answer, latency) ==
    LET elapsed == om.monitors[orderId].elapsed + latency
        ended == answer \in {"COMPLETE", "CANCELLED", "REJECTED"} \/ elapsed > orderTimeout
    IN [om EXCEPT !.activeOrders = getOrderStatus(om, orderId, answer),
                  !.monitors[orderId] =
                     [ at |-> IF ended THEN "ended" ELSE "timer", elapsed |-> elapsed,
                       final |-> answer \in {"COMPLETE", "CANCELLED", "REJECTED"} ]]

\* no placeBracketOrder call yet; calls lists the placeOrder calls made,
\* elapsed is Date.now() - startTime of waitForOrderFill
BracketInit ==
    [ pc |-> "idle", calls |-> << >>, elapsed |-> 0, observedComplete |-> FALSE,
      result |-> << >> ]

\* placeBracketOrder up to the await of the entry's placeOrder
placeBracketOrderCall(b) ==
    [ pc |-> "entry", calls |-> << "ENTRY" >>, elapsed |-> 0,
      observedComplete |-> FALSE, result |-> << >> ]

\* placeBracketOrder once the entry's placeOrder has returned: the failure
\* is returned as it is, otherwise waitForOrderFill starts and asks for the
\* status at once
placeBracketOrderEntered(b, success) ==
    IF ~success
    THEN [b EXCEPT !.pc = "returned",
                   !.result = << [ success |-> FALSE, target |-> FALSE, stopLoss |-> FALSE ] >>]
    ELSE [b EXCEPT !.pc = "polling"]

\* a variant of checkStatus that treats the timeout as a fill
waitForOrderFillCheck_timeoutResolves(b, answer, latency) ==
    LET elapsed == b.elapsed + latency
    IN IF answer = "COMPLETE" \/ (answer \notin {"CANCELLED", "REJECTED"} /\ elapsed > fillTimeout)
       THEN [b EXCEPT !.pc = "exits", !.elapsed = elapsed,
                      !.observedComplete = (answer = "COMPLETE"),
                      !.calls = @ \o << "TARGET", "SL" >>]
       ELSE IF answer \in {"CANCELLED", "REJECTED"}
       THEN [b EXCEPT !.pc = "returned", !.elapsed = elapsed,
                      !.result = << [ success |-> FALSE, target |-> FALSE,
                                      stopLoss |-> FALSE ] >>]
       ELSE [b EXCEPT !.pc = "waiting", !.elapsed = elapsed]

\* OrderManager.waitForOrderFill, checkStatus once getOrderStatus has
\* answered, and what placeBracketOrder does with the outcome: COMPLETE
\* resolves and both exit orders are placed; CANCELLED, REJECTED and the
\* timeout reject, which placeBracketOrder's catch turns into a failure;
\* otherwise the next check is scheduled
waitForOrderFillCheck(b, answer, latency) ==
    LET elapsed == b.elapsed + latency
    IN IF answer = "COMPLETE"
       THEN [b EXCEPT !.pc = "exits", !.elapsed = elapsed, !.observedComplete = TRUE,
                      !.calls = @ \o << "TARGET", "SL" >>]
       ELSE IF answer \in {"CANCELLED", "REJECTED"} \/ elapsed > fillTimeout
       THEN [b EXCEPT !.pc = "returned", !.elapsed = elapsed,
                      !.result = << [ success |-> FALSE, target |-> FALSE,
                                      stopLoss |-> FALSE ] >>]
       ELSE [b EXCEPT !.pc = "waiting", !.elapsed = elapsed]

\* placeBracketOrder once both exit orders' placeOrder calls have returned:
\* success whatever they returned
placeBracketOrderExits(b, targetOk, stopLossOk) ==
    [b EXCEPT !.pc = "returned",
              !.result = << [ success |-> TRUE, target |-> targetOk,
                              stopLoss |-> stopLossOk ] >>]

\* ------------------------------------------------------ MarketDataService
\* Prices are whole rupees here; a candle map (Map from the minute's time to
\* the candle) is the sequence of its candles in ascending order of
\* timestamp, timestamps counted in minutes.
maxReconnectAttempts == 5
maxCandles == 1000
DemoToken == 256265
RelianceToken == DemoToken + 1
DefaultInstrument == "NSE:NIFTY 50"
OtherInstrument == "NSE:RELIANCE"
\* the minute at which the service is constructed
StartMinute == 2 * maxCandles

\* the instrument token the venue lists for a symbol
TokenOf(symbol) == IF symbol = DefaultInstrument THEN DemoToken ELSE RelianceToken

\* MarketDataService constructor; instruments is config.instruments,
\* history the number of minute candles the venue holds for an instrument,
\* maxPolls the number of quote requests the venue answers in the run,
\* choices the number of prices a quote is drawn from
DataService(instruments, history, maxPolls, choices) ==
    [ instruments |-> instruments, history |-> history, maxPolls |-> maxPolls,
      choices |-> choices,
      marketData |-> << >>, candleData |-> << >>,
      isConnected |-> FALSE, reconnectAttempts |-> 0,
      pc |-> "idle", pending |-> << >>, initResult |-> << >>, inits |-> 0,
      pollLoops |-> EmptyBag, minute |-> StartMinute, polls |-> 0, failures |-> 0,
      lastCall |-> << >> ]

DataServiceInit == DataService(<< DefaultInstrument >>, 0, 0, 1)

\* the demo entry loadInstrumentTokens stores for a symbol
DemoEntry(token) ==
    [ token |-> token, lastPrice |-> DemoLastPrice, open |-> DemoOpen, lastUpdate |-> 0 ]

\* Map.set(key, value) on a map kept as a function
MapSet(map, key, value) ==
    [ k \in DOMAIN map \cup {key} |-> IF k = key THEN value ELSE map[k] ]

\* MarketDataService.loadInstrumentTokens once kite.getInstruments has
\* answered: "found" lists every configured symbol, "not_found" lists none
\* of them, "throws" is a failing call
RECURSIVE SetInstruments(_, _, _)
SetInstruments(marketData, symbols, answer) ==
    IF symbols = << >> THEN marketData
    ELSE SetInstruments(
           MapSet(marketData, Head(symbols),
                  DemoEntry(IF answer = "found" THEN TokenOf(Head(symbols)) ELSE DemoToken)),
           Tail(symbols), answer)

loadInstrumentTokens(ds, answer) ==
    IF answer = "throws"
    THEN MapSet(ds.marketData, DefaultInstrument, DemoEntry(DemoToken))
    ELSE LET loaded == SetInstruments(ds.marketData, ds.instruments, answer)
         IN IF DOMAIN loaded = {}
            THEN MapSet(loaded, DefaultInstrument, DemoEntry(DemoToken))
            ELSE loaded

\* the symbols of a map in a fixed order of iteration
RECURSIVE KeysOf(_)
KeysOf(keys) ==
    IF keys = {} THEN << >>
    ELSE LET k == CHOOSE x \in keys : TRUE IN << k >> \o KeysOf(keys \ {k})

\* MarketDataService.startRealTimeData with startPollingData: updateData
\* runs at once and returns when isConnected is still false, otherwise it is
\* suspended in kite.getQuote; then isConnected is set
startRealTimeData(ds) ==
    LET tokens == { ds.marketData[sym].token : sym \in DOMAIN ds.marketData }
    IN [ds EXCEPT !.pollLoops = IF ds.isConnected
                                THEN @ (+) SetToBag({[ tokens |-> tokens, at |-> "quote" ]})
                                ELSE @,
                  !.isConnected = TRUE]

\* MarketDataService.updateCandleData on one symbol's candles; now is the
\* current minute, never before the newest candle
updateCandleData(candles, now, ltp, volume) ==
    LET updated ==
          IF candles # << >> /\ candles[Len(candles)].timestamp = now
          THEN [candles EXCEPT ![Len(candles)] =
                  [@ EXCEPT !.high = IF ltp > @ THEN ltp ELSE @,
                            !.low = IF ltp < @ THEN ltp ELSE @,
                            !.close = ltp, !.volume = volume]]
          ELSE Append(candles, [ timestamp |-> now, open |-> ltp, high |-> ltp,
                                 low |-> ltp, close |-> ltp, volume |-> volume ])
    IN IF Len(updated) > maxCandles THEN Tail(updated) ELSE updated

\* the candles stored for a symbol (none when the symbol has no map)
CandlesOf(ds, symbol) ==
    IF symbol \in DOMAIN ds.candleData THEN ds.candleData[symbol] ELSE << >>

\* MarketDataService.updateMarketData(symbol, newData) for a symbol of
\* marketData; stamp stands for newData.timestamp
serviceUpdateMarketData(ds, symbol, ltp, open, volume, stamp) ==
    [ds EXCEPT !.marketData[symbol] =
                  [@ EXCEPT !.lastPrice = ltp, !.open = open, !.lastUpdate = stamp],
               !.candleData = MapSet(@, symbol,
                                 updateCandleData(CandlesOf(ds, symbol), ds.minute,
                                                  ltp, volume))]

\* the minute candle the venue holds for minute t
HistoricalCandle(t) ==
    LET open == DemoOpen + (t % 3) * 20
    IN [ timestamp |-> t, open |-> open, high |-> open + 20 + (t % 2) * 20,
         low |-> open - 20 - (t % 5) * 10, close |-> open + (t % 2) * 20 - 10,
         volume |-> 100 + (t % 7) ]

\* what kite.getHistoricalData returns: the n minutes before StartMinute
HistoricalData(n) == [ i \in 1..n |-> HistoricalCandle(StartMinute - n + i - 1) ]

\* MarketDataService.loadHistoricalData, the body of the loop for one
\* symbol once kite.getHistoricalData has answered: every candle is set
\* under its timestamp
storeHistoricalData(ds, symbol, historicalData) ==
    LET stored == CandlesOf(ds, symbol)
        Older(c) == historicalData # << >> /\ c.timestamp < historicalData[1].timestamp
        Newer(c) == historicalData = << >>
                      \/ c.timestamp > historicalData[Len(historicalData)].timestamp
    IN [ds EXCEPT !.candleData =
          MapSet(@, symbol, SelectSeq(stored, Older) \o historicalData
                              \o SelectSeq(stored, Newer))]

\* batch.reduce((sum, c) => sum + c.volume, 0)
RECURSIVE ReduceVolume(_)
ReduceVolume(batch) ==
    IF batch = << >> THEN 0 ELSE batch[1].volume + ReduceVolume(Tail(batch))

\* a variant that closes a group with its first candle's close
RECURSIVE aggregateCandles_firstClose(_, _)
aggregateCandles_firstClose(candles, minutes) ==
    IF candles = << >> THEN << >>
    ELSE LET n == IF Len(candles) < minutes THEN Len(candles) ELSE minutes
             batch == SubSeq(candles, 1, n)
             highs == { batch[i].high : i \in 1..n }
             lows == { batch[i].low : i \in 1..n }
         IN << [ timestamp |-> batch[1].timestamp, open |-> batch[1].open,
                 high |-> CHOOSE h \in highs : \A x \in highs : x =< h,
                 low |-> CHOOSE l \in lows : \A x \in lows : l =< x,
                 close |-> batch[1].close,
                 volume |-> ReduceVolume(batch) ] >>
              \o aggregateCandles_firstClose(SubSeq(candles, n + 1, Len(candles)), minutes)

\* MarketDataService.aggregateCandles(candles, minutes), minutes >= 1
RECURSIVE aggregateCandles(_, _)
aggregateCandles(candles, minutes) ==
    IF candles = << >> THEN << >>
    ELSE LET n == IF Len(candles) < minutes THEN Len(candles) ELSE minutes
             batch == SubSeq(candles, 1, n)
             highs == { batch[i].high : i \in 1..n }
             lows == { batch[i].low : i \in 1..n }
         IN << [ timestamp |-> batch[1].timestamp, open |-> batch[1].open,
                 high |-> CHOOSE h \in highs : \A x \in highs : x =< h,
                 low |-> CHOOSE l \in lows : \A x \in lows : l =< x,
                 close |-> batch[n].close,
                 volume |-> ReduceVolume(batch) ] >>
              \o aggregateCandles(SubSeq(candles, n + 1, Len(candles)), minutes)

\* Array.slice(-limit), limit >= 1
SliceLast(seq, limit) ==
    IF Len(seq) =< limit THEN seq ELSE SubSeq(seq, Len(seq) - limit + 1, Len(seq))

\* MarketDataService.getCandleData(symbol, timeframe, limit)
getCandleData(ds, symbol, timeframe, limit) ==
    IF symbol \notin DOMAIN ds.candleData THEN << >>
    ELSE LET candles == SliceLast(ds.candleData[symbol], limit)
         IN IF timeframe = "hour" THEN aggregateCandles(candles, 60)
            ELSE IF timeframe = "day" THEN aggregateCandles(candles, 60 * 24)
            ELSE candles

\* MarketDataService.getCurrentData(symbol): << >> is undefined
getCurrentData(ds, symbol) ==
    IF symbol \in DOMAIN ds.marketData THEN << ds.marketData[symbol] >> ELSE << >>

\* MarketDataService.getMarketStatus().isConnected
getMarketStatusIsConnected(ds) == ds.isConnected


VARIABLES
    clock,             \* wall clock, seconds since midnight of day 0
    feed,              \* "service": MarketDataService of this repository;
                       \* "contract": a feed whose quotes carry ltp and open
    enableAutoTrading, \* config.enableAutoTrading
    quote,             \* what getCurrentMarketData() returns: << >> is undefined
    isRunning,
    isPaused,
    executionTimer,    \* "null", or the handle of the last setTimeout:
                       \* "pending" while that timer waits, "fired" after
    orphanTimers,      \* pending execute timers executionTimer no longer holds
    ticks,             \* execute callbacks suspended in placeOrder: the bag
                       \* of their locals
    starting,          \* start() calls suspended in performPreTradeChecks
    strategy,          \* TradingStrategy.state
    risk,              \* RiskManager.dailyStats, riskLimits, config.initialCapital
    dailyStats,        \* TradingEngine.dailyStats
    lastResult,        \* what the strategy returned in the step just taken
    stopDone,          \* a stop() has succeeded and no start() has since
    lastCheck,         \* the checkDailyLimits call made in the step just
                       \* taken: << >> if none, else its arguments and result
    pnlLog,            \* the pnl of the trades handed to
                       \* RiskManager.updateDailyStats since its last reset
    orderManager,      \* an OrderManager and the placeOrder call running on it
    bracketOrder,      \* the placeBracketOrder call running on an OrderManager
    marketDataService, \* a MarketDataService: its maps, flags and poll loops
    closePositionsOnStop, \* config.closePositionsOnStop
    stopCalls          \* stop() calls suspended in closeAllPositions: the bag
                       \* of their positions in it

vars == << clock, feed, enableAutoTrading, quote, isRunning, isPaused,
           executionTimer, orphanTimers, ticks, starting, strategy, risk,
           dailyStats, lastResult, stopDone, lastCheck, pnlLog, orderManager, bracketOrder,
                    marketDataService,
                    closePositionsOnStop, stopCalls >>

NoData == << >>

\* TradingEngine constructor: this.dailyStats
EngineStatsInit == [ trades |-> << >>, totalPnL |-> Num(0), maxDrawdown |-> Num(0) ]

\* pending execute timers
PendingTimers == orphanTimers + (IF executionTimer = "pending" THEN 1 ELSE 0)

\* live execute callbacks: pending timers and suspended ticks
LoopCount == PendingTimers + BagCardinality(ticks)

\* the state after construction, the market data service apart
InitEngine ==
    /\ clock = T(9, 30, 0)
    /\ feed \in {"service", "contract"}
    /\ enableAutoTrading \in BOOLEAN
    /\ quote = NoData
    /\ isRunning = FALSE
    /\ isPaused = FALSE
    /\ executionTimer = "null"
    /\ orphanTimers = 0
    /\ ticks = EmptyBag
    /\ starting = 0
    /\ strategy = StrategyInit
    /\ risk = RiskInit
    /\ dailyStats = EngineStatsInit
    /\ lastResult = "NONE"
    /\ stopDone = FALSE
    /\ lastCheck = << >>
    /\ pnlLog = << >>
    /\ orderManager = OrderManagerInit
    /\ bracketOrder = BracketInit
    /\ stopCalls = EmptyBag

Init ==
    /\ InitEngine
    /\ marketDataService = DataServiceInit
    /\ closePositionsOnStop = FALSE

\* TradingEngine.recordTrade(trade)
EngineRecordTrade(ds, trade) ==
    LET total == JsAdd(ds.totalPnL, PnlOf(trade))
    IN [ trades |-> Append(ds.trades, trade),
         totalPnL |-> total,
         maxDrawdown |-> IF JsLt(total, ds.maxDrawdown) THEN total ELSE ds.maxDrawdown ]

\* TradingEngine.closeAllPositions up to the await of getPositions: the
\* position of a stop() call suspended there
AwaitingPositions == [ at |-> "positions", remaining |-> 0 ]

\* TradingEngine.stop on a running engine up to its first await: with
\* closePositionsOnStop the call is suspended in closeAllPositions, else it
\* runs to its return (generateDailyReport, emit stopped, success)
StopCalls(calls) ==
    IF closePositionsOnStop THEN calls (+) SetToBag({AwaitingPositions}) ELSE calls

\* the synchronous part of TradingEngine.stop on a running engine:
\* clearTimeout(this.executionTimer); this.executionTimer = null
StopTimers_keepsTimer(et, orphans) == [ executionTimer |-> et, orphanTimers |-> orphans ]

StopTimers(et, orphans) == [ executionTimer |-> "null", orphanTimers |-> orphans ]

\* this.executionTimer = setTimeout(execute, ...): a handle that was still
\* pending is no longer held
ArmTimer(et, orphans) ==
    [ executionTimer |-> "pending",
      orphanTimers |-> IF et = "pending" THEN orphans + 1 ELSE orphans ]

\* TradingEngine.updateRiskMetrics and the setTimeout that ends the execute
\* callback: run, et, orphans are isRunning, executionTimer and orphanTimers
\* at that point, rk the risk manager's state, sd the value of stopDone.
\* stop() called from updateRiskMetrics returns at once when the engine is
\* not running.
FinishTick(run, et, orphans, rk, sd) ==
    LET stopNow == shouldTriggerEmergencyStop(rk) /\ run
        t1 == IF stopNow THEN StopTimers(et, orphans)
              ELSE [ executionTimer |-> et, orphanTimers |-> orphans ]
        t2 == ArmTimer(t1.executionTimer, t1.orphanTimers)
    IN /\ isRunning' = (run /\ ~stopNow)
       /\ stopDone' = (sd \/ (stopNow /\ ~closePositionsOnStop))
       /\ stopCalls' = IF stopNow THEN StopCalls(stopCalls) ELSE stopCalls
       /\ executionTimer' = t2.executionTimer
       /\ orphanTimers' = t2.orphanTimers

\* TradingEngine.startExecutionLoop: the execute callback once isRunning has
\* been found true; paused, et, orphans, sd are isPaused, executionTimer,
\* orphanTimers and stopDone then
RunExecute(paused, et, orphans, sd) ==
    IF ~isMarketOpen(clock)
    THEN \* await this.stop(); return
         /\ isRunning' = FALSE
         /\ executionTimer' = StopTimers(et, orphans).executionTimer
         /\ orphanTimers' = StopTimers(et, orphans).orphanTimers
         /\ stopDone' = (sd \/ ~closePositionsOnStop)
         /\ stopCalls' = StopCalls(stopCalls)
         /\ lastResult' = "NONE"
         /\ lastCheck' = << >>
         /\ UNCHANGED << ticks, strategy, risk, dailyStats, pnlLog >>
    ELSE IF ~paused /\ enableAutoTrading /\ quote # NoData
    THEN \* executeStrategy
         LET r == execute(strategy, quote[1], clock, risk)
         IN /\ strategy' = r.st
            /\ lastResult' = r.action
            /\ lastCheck' = r.riskCheck
            /\ IF r.order # << >>
               THEN \* suspended in orderManager.placeOrder
                    /\ ticks' = ticks (+) SetToBag({r.order[1]})
                    /\ isRunning' = TRUE
                    /\ executionTimer' = et
                    /\ orphanTimers' = orphans
                    /\ stopDone' = sd
                    /\ UNCHANGED << risk, dailyStats, pnlLog, stopCalls >>
               ELSE \* handleStrategyResult
                    /\ ticks' = ticks
                    /\ IF r.trade # << >>
                       THEN /\ dailyStats' = EngineRecordTrade(dailyStats, r.trade[1])
                            /\ risk' = updateDailyStats(risk, r.trade[1])
                            /\ pnlLog' = Append(pnlLog, PnlOf(r.trade[1]))
                       ELSE UNCHANGED << dailyStats, risk, pnlLog >>
                    /\ FinishTick(TRUE, et, orphans, risk', sd)
    ELSE \* paused, auto trading disabled, or no market data
         /\ lastResult' = "NONE"
         /\ lastCheck' = << >>
         /\ UNCHANGED << ticks, strategy, risk, dailyStats, pnlLog >>
         /\ FinishTick(TRUE, et, orphans, risk, sd)

\* the clock moves to the next instant
Advance ==
    /\ \E c \in Instants :
         /\ c > clock
         /\ \A d \in Instants : d > clock => c =< d
         /\ clock' = c
    /\ lastResult' = "NONE"
    /\ lastCheck' = << >>
    /\ UNCHANGED << feed, enableAutoTrading, quote, isRunning, isPaused,
                    executionTimer, orphanTimers, ticks, starting, strategy,
                    risk, dailyStats, stopDone,
                    pnlLog, orderManager, bracketOrder,
                    marketDataService,
                    closePositionsOnStop, stopCalls >>

\* TradingEngine.initialize: the market data service loads its instruments
\* (demo quote), the daily statistics are reset
Initialize ==
    /\ quote = NoData
    /\ quote' = << [ lastPrice |-> Num(DemoLastPrice), ohlcOpen |-> Num(DemoOpen),
                     ltp |-> NaN, open |-> NaN ] >>
    /\ dailyStats' = EngineStatsInit
    /\ risk' = RiskResetDailyStats(risk)
    /\ pnlLog' = << >>
    /\ lastResult' = "NONE"
    /\ lastCheck' = << >>
    /\ UNCHANGED << clock, feed, enableAutoTrading, isRunning, isPaused,
                    executionTimer, orphanTimers, ticks, starting, strategy,
                    stopDone, orderManager, bracketOrder,
                    marketDataService,
                    closePositionsOnStop, stopCalls >>

\* MarketDataService.updateMarketData: the cached quote keeps the new price
\* under lastPrice and ohlc.open; it never gets an ltp or open field
updateMarketData ==
    /\ feed = "service"
    /\ quote # NoData
    /\ \E p \in Prices :
         quote' = << [ quote[1] EXCEPT !.lastPrice = Num(p), !.ohlcOpen = Num(OpenPrice) ] >>
    /\ lastResult' = "NONE"
    /\ lastCheck' = << >>
    /\ UNCHANGED << clock, feed, enableAutoTrading, isRunning, isPaused,
                    executionTimer, orphanTimers, ticks, starting, strategy,
                    risk, dailyStats, stopDone,
                    pnlLog, orderManager, bracketOrder,
                    marketDataService,
                    closePositionsOnStop, stopCalls >>

\* a feed that hands the strategy the market data object it reads
\* (ltp, open), as Backtester.executeStrategyStep builds it
SupplyQuote ==
    /\ feed = "contract"
    /\ quote # NoData
    /\ \E p \in Prices :
         quote' = << [ lastPrice |-> NaN, ohlcOpen |-> NaN,
                       ltp |-> Num(p), open |-> Num(OpenPrice) ] >>
    /\ lastResult' = "NONE"
    /\ lastCheck' = << >>
    /\ UNCHANGED << clock, feed, enableAutoTrading, isRunning, isPaused,
                    executionTimer, orphanTimers, ticks, starting, strategy,
                    risk, dailyStats, stopDone,
                    pnlLog, orderManager, bracketOrder,
                    marketDataService,
                    closePositionsOnStop, stopCalls >>

\* TradingEngine.start up to the await of performPreTradeChecks
StartCall ==
    /\ ~isRunning
    /\ isMarketOpen(clock)
    /\ LoopCount + starting < MaxLoops
    /\ starting' = starting + 1
    /\ lastResult' = "NONE"
    /\ lastCheck' = << >>
    /\ UNCHANGED << clock, feed, enableAutoTrading, quote, isRunning, isPaused,
                    executionTimer, orphanTimers, ticks, strategy, risk,
                    dailyStats, stopDone,
                    pnlLog, orderManager, bracketOrder,
                    marketDataService,
                    closePositionsOnStop, stopCalls >>

\* TradingEngine.performPreTradeChecks: the risk check part; profile and
\* margin are the venue's answer
preTradeRiskOk == checkDailyLimits(risk, Num(0), 0).canTrade

\* TradingEngine.start: performPreTradeChecks failed
StartFail ==
    /\ starting > 0
    /\ starting' = starting - 1
    /\ lastResult' = "NONE"
    /\ lastCheck' = << >>
    /\ UNCHANGED << clock, feed, enableAutoTrading, quote, isRunning, isPaused,
                    executionTimer, orphanTimers, ticks, strategy, risk,
                    dailyStats, stopDone,
                    pnlLog, orderManager, bracketOrder,
                    marketDataService,
                    closePositionsOnStop, stopCalls >>

\* TradingEngine.start after performPreTradeChecks succeeded: the engine is
\* marked running and the first execute callback runs at once
StartSucceed ==
    /\ starting > 0
    /\ preTradeRiskOk
    /\ starting' = starting - 1
    /\ isPaused' = FALSE
    /\ RunExecute(FALSE, executionTimer, orphanTimers, FALSE)
    /\ UNCHANGED << clock, feed, enableAutoTrading, quote, orderManager, bracketOrder,
                    marketDataService, closePositionsOnStop >>

\* TradingEngine.stop
Stop ==
    /\ isRunning
    /\ isRunning' = FALSE
    /\ executionTimer' = StopTimers(executionTimer, orphanTimers).executionTimer
    /\ orphanTimers' = StopTimers(executionTimer, orphanTimers).orphanTimers
    /\ stopDone' = (stopDone \/ ~closePositionsOnStop)
    /\ stopCalls' = StopCalls(stopCalls)
    /\ lastResult' = "NONE"
    /\ lastCheck' = << >>
    /\ UNCHANGED << clock, feed, enableAutoTrading, quote, isPaused, ticks,
                    starting, strategy, risk, dailyStats,
                    pnlLog, orderManager, bracketOrder,
                    marketDataService, closePositionsOnStop >>

\* TradingEngine.pause
Pause ==
    /\ isRunning
    /\ isPaused' = TRUE
    /\ lastResult' = "NONE"
    /\ lastCheck' = << >>
    /\ UNCHANGED << clock, feed, enableAutoTrading, quote, isRunning,
                    executionTimer, orphanTimers, ticks, starting, strategy,
                    risk, dailyStats, stopDone,
                    pnlLog, orderManager, bracketOrder,
                    marketDataService,
                    closePositionsOnStop, stopCalls >>

\* TradingEngine.resume
Resume ==
    /\ isRunning
    /\ isPaused' = FALSE
    /\ lastResult' = "NONE"
    /\ lastCheck' = << >>
    /\ UNCHANGED << clock, feed, enableAutoTrading, quote, isRunning,
                    executionTimer, orphanTimers, ticks, starting, strategy,
                    risk, dailyStats, stopDone,
                    pnlLog, orderManager, bracketOrder,
                    marketDataService,
                    closePositionsOnStop, stopCalls >>

\* a pending timer fires (the one executionTimer holds, or an orphan): the
\* execute callback from its first line
TimerFire ==
    \E held \in BOOLEAN :
       /\ IF held THEN executionTimer = "pending" ELSE orphanTimers > 0
       /\ UNCHANGED << clock, feed, enableAutoTrading, quote, isPaused, starting,
                       orderManager, bracketOrder,
                       marketDataService, closePositionsOnStop >>
       /\ LET et == IF held THEN "fired" ELSE executionTimer
              orphans == IF held THEN orphanTimers ELSE orphanTimers - 1
          IN IF ~isRunning
             THEN /\ executionTimer' = et
                  /\ orphanTimers' = orphans
                  /\ lastResult' = "NONE"
                  /\ lastCheck' = << >>
                  /\ UNCHANGED << isRunning, ticks, strategy, risk, dailyStats,
                                  stopDone, pnlLog, stopCalls >>
             ELSE RunExecute(isPaused, et, orphans, stopDone)

\* orderManager.placeOrder returns to a suspended enterPosition; the execute
\* callback then runs to its end (handleStrategyResult of an undefined
\* result throws inside executeStrategy, which catches it)
OrderReturn ==
    \E order \in BagToSet(ticks), success \in BOOLEAN :
       LET r == enterPositionResume(strategy, order, success, clock)
       IN /\ strategy' = r.st
          /\ lastResult' = r.action
          /\ lastCheck' = << >>
          /\ ticks' = ticks (-) SetToBag({order})
          /\ FinishTick(isRunning, executionTimer, orphanTimers, risk, stopDone)
          /\ UNCHANGED << clock, feed, enableAutoTrading, quote, isPaused,
                          starting, risk, dailyStats, pnlLog, orderManager, bracketOrder,
                          marketDataService, closePositionsOnStop >>

Next ==
    \/ Advance
    \/ Initialize
    \/ updateMarketData
    \/ SupplyQuote
    \/ StartCall
    \/ StartFail
    \/ StartSucceed
    \/ Stop
    \/ Pause
    \/ Resume
    \/ TimerFire
    \/ OrderReturn

Spec == Init /\ [][Next]_vars

\* The runs in which the caller serializes start(): it is not called while a
\* callback of an earlier loop or another start() is still alive.
StartCallSerial ==
    /\ LoopCount + starting = 0
    /\ StartCall

NextSerial ==
    \/ Advance
    \/ Initialize
    \/ updateMarketData
    \/ SupplyQuote
    \/ StartCallSerial
    \/ StartFail
    \/ StartSucceed
    \/ Stop
    \/ Pause
    \/ Resume
    \/ TimerFire
    \/ OrderReturn

SpecSerial == Init /\ [][NextSerial]_vars

\* Stop with liquidation.  What orderManager.getPositions can hand to
\* closeAllPositions: a failure (getPositions catches the venue's error), a
\* success without a net list (reading it throws inside closeAllPositions),
\* or a net list with that many non-zero positions
MaxPositions == 1
PositionsAnswers ==
    {[ success |-> FALSE, net |-> << >> ], [ success |-> TRUE, net |-> << >> ]}
       \cup {[ success |-> TRUE, net |-> << n >> ] : n \in 0..MaxPositions}

\* what an awaited call of a suspended stop() can return: getPositions'
\* result, or placeOrder's success flag (false after its retries)
StopAnswers(call) ==
    IF call.at = "positions" THEN PositionsAnswers
    ELSE {[ success |-> ok, net |-> << >> ] : ok \in BOOLEAN}

\* a variant in which a failed liquidation order ends stop() with a failure
closeAllPositions_failurePropagates(call, answer) ==
    LET left == IF call.at = "positions"
                THEN (IF answer.success /\ answer.net # << >> THEN answer.net[1] ELSE 0)
                ELSE call.remaining - 1
    IN IF call.at = "order" /\ ~answer.success
       THEN [ call |-> << >>, returned |-> << [ success |-> FALSE ] >> ]
       ELSE IF left > 0
       THEN [ call |-> << [ at |-> "order", remaining |-> left ] >>, returned |-> << >> ]
       ELSE [ call |-> << >>, returned |-> << [ success |-> TRUE ] >> ]

\* TradingEngine.closeAllPositions from the return of an awaited call, and
\* the rest of stop() when it ends: a failed or malformed getPositions
\* result and a failed order are passed over; left is the number of
\* liquidation orders still to place.  call: the next await, returned:
\* what stop() returns
closeAllPositions(call, answer) ==
    LET left == IF call.at = "positions"
                THEN (IF answer.success /\ answer.net # << >> THEN answer.net[1] ELSE 0)
                ELSE call.remaining - 1
    IN IF left > 0
       THEN [ call |-> << [ at |-> "order", remaining |-> left ] >>, returned |-> << >> ]
       ELSE [ call |-> << >>, returned |-> << [ success |-> TRUE ] >> ]

\* the call a suspended stop() awaits returns
StopAnswer ==
    \E call \in BagToSet(stopCalls) :
       \E answer \in StopAnswers(call) :
          LET r == closeAllPositions(call, answer)
          IN /\ stopCalls' = (stopCalls (-) SetToBag({call})) (+) SetToBag({r.call[i] : i \in DOMAIN r.call})
             /\ stopDone' = (stopDone \/ (r.returned # << >> /\ r.returned[1].success))
             /\ lastResult' = "NONE"
             /\ lastCheck' = << >>
             /\ UNCHANGED << clock, feed, enableAutoTrading, quote, isRunning, isPaused,
                             executionTimer, orphanTimers, ticks, starting, strategy,
                             risk, dailyStats, pnlLog, orderManager, bracketOrder,
                             marketDataService, closePositionsOnStop >>

\* start() is not called while a stop() is still liquidating
StartCallAfterStop ==
    /\ stopCalls = EmptyBag
    /\ StartCallSerial

InitStop ==
    /\ InitEngine
    /\ marketDataService = DataServiceInit
    /\ closePositionsOnStop \in BOOLEAN

NextStop ==
    \/ Advance
    \/ Initialize
    \/ updateMarketData
    \/ SupplyQuote
    \/ StartCallAfterStop
    \/ StartFail
    \/ StartSucceed
    \/ Stop
    \/ Pause
    \/ Resume
    \/ TimerFire
    \/ OrderReturn
    \/ StopAnswer

\* the venue answers every request of a stop() in progress
SpecStop == InitStop /\ [][NextStop]_vars /\ WF_vars(StopAnswer)

\* TradingEngine.initialize called again on an initialized engine (the day
\* rollover): the market data service reloads its instruments (demo quote)
\* and TradingEngine.resetDailyStats resets the engine's and the risk
\* manager's statistics; the strategy's state is not touched
Reinitialize ==
    /\ quote # NoData
    /\ quote' = << [ lastPrice |-> Num(DemoLastPrice), ohlcOpen |-> Num(DemoOpen),
                     ltp |-> NaN, open |-> NaN ] >>
    /\ dailyStats' = EngineStatsInit
    /\ risk' = RiskResetDailyStats(risk)
    /\ pnlLog' = << >>
    /\ lastResult' = "NONE"
    /\ lastCheck' = << >>
    /\ UNCHANGED << clock, feed, enableAutoTrading, isRunning, isPaused,
                    executionTimer, orphanTimers, ticks, starting, strategy,
                    stopDone, orderManager, bracketOrder,
                    marketDataService,
                    closePositionsOnStop, stopCalls >>

\* The serialized runs in which initialize() may be called again.
NextDay ==
    \/ NextSerial
    \/ Reinitialize

SpecDay == Init /\ [][NextDay]_vars

\* ============================================ RiskManager called on its own
\* A RiskManager whose methods are called directly, in any order, with
\* trades that carry a pnl.
MaxCalls == 4
MaxDrift == 300000
\* currentPnL and tradesCount arguments of checkDailyLimits, pnl of the
\* trades handed to updateDailyStats (paise)
PnlInputs == {0, -140000, -150000, 150000, -200000, 210000, -520000}
CountInputs == {0, 4, 5}
TradePnls == {-150000, 0, 100000}

\* riskManager.checkDailyLimits(pnl, n)
RiskCheckCall ==
    /\ \E pnl \in PnlInputs, n \in CountInputs :
         lastCheck' = << [ currentPnL |-> Num(pnl), tradesCount |-> n,
                           consecutiveLosses |-> risk.consecutiveLosses,
                           result |-> checkDailyLimits(risk, Num(pnl), n) ] >>
    /\ lastResult' = "NONE"
    /\ UNCHANGED << clock, feed, enableAutoTrading, quote, isRunning, isPaused,
                    executionTimer, orphanTimers, ticks, starting, strategy,
                    risk, dailyStats, stopDone, pnlLog, orderManager, bracketOrder,
                    marketDataService,
                    closePositionsOnStop, stopCalls >>

\* riskManager.updateDailyStats(trade)
RiskUpdateCall ==
    /\ Len(pnlLog) < MaxCalls
    /\ \E pnl \in TradePnls :
         /\ risk' = updateDailyStats(risk, [ pnl |-> pnl ])
         /\ pnlLog' = Append(pnlLog, Num(pnl))
    /\ lastResult' = "NONE"
    /\ lastCheck' = << >>
    /\ UNCHANGED << clock, feed, enableAutoTrading, quote, isRunning, isPaused,
                    executionTimer, orphanTimers, ticks, starting, strategy,
                    dailyStats, stopDone, orderManager, bracketOrder,
                    marketDataService,
                    closePositionsOnStop, stopCalls >>

\* riskManager.resetDailyStats()
RiskResetCall ==
    /\ Abs(Val(JsAdd(risk.initialCapital, risk.totalPnL)) - initialCapital * Paise) =< MaxDrift
    /\ risk' = RiskResetDailyStats(risk)
    /\ pnlLog' = << >>
    /\ lastResult' = "NONE"
    /\ lastCheck' = << >>
    /\ UNCHANGED << clock, feed, enableAutoTrading, quote, isRunning, isPaused,
                    executionTimer, orphanTimers, ticks, starting, strategy,
                    dailyStats, stopDone, orderManager, bracketOrder,
                    marketDataService,
                    closePositionsOnStop, stopCalls >>

NextRisk ==
    \/ RiskCheckCall
    \/ RiskUpdateCall
    \/ RiskResetCall

SpecRisk == Init /\ [][NextRisk]_vars

\* =========================================== OrderManager called on its own
\* An OrderManager whose placeOrder is called with any parameters, one call
\* at a time, against a venue that accepts, answers without an order id, or
\* throws.
MaxOrders == 2
OrderInputs ==
    [ symbol : {"", "NIFTY"}, exchange : {"NSE"}, transaction_type : {"BUY"},
      quantity : {-5, 0, 20}, order_type : {"MARKET", "LIMIT", "SL"},
      product : {"MIS"}, price : {0, DemoLastPrice}, trigger_price : {0, DemoOpen} ]
VenueAnswers == {"order_id", "no_order_id", "throws"}

\* orderManager.placeOrder(params)
placeOrder ==
    /\ orderManager.pc \in {"idle", "returned"}
    /\ Len(orderManager.orderHistory) < MaxOrders
    /\ \E params \in OrderInputs :
         orderManager' = placeOrderTry([orderManager EXCEPT
                             !.params = params, !.retryCount = 0, !.venueCalls = 0,
                             !.delays = 0, !.result = << >>])
    /\ lastResult' = "NONE"
    /\ lastCheck' = << >>
    /\ UNCHANGED << clock, feed, enableAutoTrading, quote, isRunning, isPaused,
                    executionTimer, orphanTimers, ticks, starting, strategy,
                    risk, dailyStats, stopDone, pnlLog, bracketOrder,
                    marketDataService,
                    closePositionsOnStop, stopCalls >>

\* kite.placeOrder answers
VenueAnswer ==
    /\ orderManager.pc = "venue"
    /\ \E answer \in VenueAnswers :
         orderManager' =
            IF answer = "order_id"
            THEN placeOrderRegister(orderManager, Len(orderManager.orderHistory) + 1)
            ELSE placeOrderCatch(orderManager)
    /\ lastResult' = "NONE"
    /\ lastCheck' = << >>
    /\ UNCHANGED << clock, feed, enableAutoTrading, quote, isRunning, isPaused,
                    executionTimer, orphanTimers, ticks, starting, strategy,
                    risk, dailyStats, stopDone, pnlLog, bracketOrder,
                    marketDataService,
                    closePositionsOnStop, stopCalls >>

\* this.delay(retryDelay) is over: placeOrder(orderParams, retryCount + 1)
delay ==
    /\ orderManager.pc = "delay"
    /\ orderManager' = placeOrderTry([orderManager EXCEPT !.retryCount = @ + 1])
    /\ lastResult' = "NONE"
    /\ lastCheck' = << >>
    /\ UNCHANGED << clock, feed, enableAutoTrading, quote, isRunning, isPaused,
                    executionTimer, orphanTimers, ticks, starting, strategy,
                    risk, dailyStats, stopDone, pnlLog, bracketOrder,
                    marketDataService,
                    closePositionsOnStop, stopCalls >>

NextOrder ==
    \/ placeOrder
    \/ VenueAnswer
    \/ delay

SpecOrder == Init /\ [][NextOrder]_vars

\* ================================= OrderManager.placeBracketOrder on its own
\* placeBracketOrder called one call at a time; the placeOrder calls it makes
\* are seen by their results.
placeBracketOrder ==
    /\ bracketOrder.pc \in {"idle", "returned"}
    /\ bracketOrder' = placeBracketOrderCall(bracketOrder)
    /\ lastResult' = "NONE"
    /\ lastCheck' = << >>
    /\ UNCHANGED << clock, feed, enableAutoTrading, quote, isRunning, isPaused,
                    executionTimer, orphanTimers, ticks, starting, strategy,
                    risk, dailyStats, stopDone, pnlLog, orderManager,
                    marketDataService,
                    closePositionsOnStop, stopCalls >>

\* the entry's placeOrder returns
EntryPlaced ==
    /\ bracketOrder.pc = "entry"
    /\ \E success \in BOOLEAN :
         bracketOrder' = placeBracketOrderEntered(bracketOrder, success)
    /\ lastResult' = "NONE"
    /\ lastCheck' = << >>
    /\ UNCHANGED << clock, feed, enableAutoTrading, quote, isRunning, isPaused,
                    executionTimer, orphanTimers, ticks, starting, strategy,
                    risk, dailyStats, stopDone, pnlLog, orderManager,
                    marketDataService,
                    closePositionsOnStop, stopCalls >>

\* getOrderStatus answers a check of waitForOrderFill
FillCheck ==
    /\ bracketOrder.pc = "polling"
    /\ \E answer \in StatusAnswers, latency \in Latencies :
         bracketOrder' = waitForOrderFillCheck(bracketOrder, answer, latency)
    /\ lastResult' = "NONE"
    /\ lastCheck' = << >>
    /\ UNCHANGED << clock, feed, enableAutoTrading, quote, isRunning, isPaused,
                    executionTimer, orphanTimers, ticks, starting, strategy,
                    risk, dailyStats, stopDone, pnlLog, orderManager,
                    marketDataService,
                    closePositionsOnStop, stopCalls >>

\* setTimeout(checkStatus, 2000) fires
FillTimer ==
    /\ bracketOrder.pc = "waiting"
    /\ bracketOrder' = [bracketOrder EXCEPT !.pc = "polling",
                                            !.elapsed = @ + fillCheckInterval]
    /\ lastResult' = "NONE"
    /\ lastCheck' = << >>
    /\ UNCHANGED << clock, feed, enableAutoTrading, quote, isRunning, isPaused,
                    executionTimer, orphanTimers, ticks, starting, strategy,
                    risk, dailyStats, stopDone, pnlLog, orderManager,
                    marketDataService,
                    closePositionsOnStop, stopCalls >>

\* both exit orders' placeOrder calls have returned
ExitsPlaced ==
    /\ bracketOrder.pc = "exits"
    /\ \E targetOk \in BOOLEAN, stopLossOk \in BOOLEAN :
         bracketOrder' = placeBracketOrderExits(bracketOrder, targetOk, stopLossOk)
    /\ lastResult' = "NONE"
    /\ lastCheck' = << >>
    /\ UNCHANGED << clock, feed, enableAutoTrading, quote, isRunning, isPaused,
                    executionTimer, orphanTimers, ticks, starting, strategy,
                    risk, dailyStats, stopDone, pnlLog, orderManager,
                    marketDataService,
                    closePositionsOnStop, stopCalls >>

NextBracket ==
    \/ placeBracketOrder
    \/ EntryPlaced
    \/ FillCheck
    \/ FillTimer
    \/ ExitsPlaced

SpecBracket == Init /\ [][NextBracket]_vars

\* ======================================= MarketDataService called on its own
\* A MarketDataService whose initialize, disconnect, getCandleData and
\* aggregateCandles are called directly, against a venue that lists the
\* instruments or not, answers quote and history requests or throws.
MaxInits == 2
MaxMinutes == 1
MaxPolls == 7
CandlePolls == 1
InstrumentConfigs ==
    { << DefaultInstrument >>, << OtherInstrument >>,
      << DefaultInstrument, OtherInstrument >> }
InstrumentAnswers == {"found", "not_found", "throws"}
HistoryAnswers == {"data", "throws"}
QuoteAnswers == {"all", "none", "throws"}
\* last_price of the venue's quotes, the random variation of the demo quotes
\* (within +-50) and of the fallback quotes (within +-10), the volume
VenuePrices == << DemoLastPrice - 20, DemoLastPrice + 20 >>
DemoVariations == << -40, 40 >>
FallbackVariations == << -10, 10 >>
DemoVolume == 1000000
\* arguments of getCandleData and aggregateCandles
Timeframes == {"minute", "hour", "day"}
Limits == {2, 60}
GroupSizes == {7, 60}
\* the numbers of minute candles the venue holds in the candle queries
HistorySizes == {60, 61, 125}

InitData ==
    /\ InitEngine
    /\ feed = "service"
    /\ ~enableAutoTrading
    /\ closePositionsOnStop = FALSE
    /\ marketDataService \in { DataService(cfg, 0, MaxPolls, 1) :
                                 cfg \in InstrumentConfigs }

InitCandles ==
    /\ InitEngine
    /\ feed = "service"
    /\ ~enableAutoTrading
    /\ closePositionsOnStop = FALSE
    /\ marketDataService \in { DataService(<< DefaultInstrument >>, n, 0, 1) :
                                 n \in HistorySizes }

InitRetention ==
    /\ InitEngine
    /\ feed = "service"
    /\ ~enableAutoTrading
    /\ closePositionsOnStop = FALSE
    /\ marketDataService = DataService(<< DefaultInstrument >>, maxCandles + 2, CandlePolls, 2)

\* marketData.initialize() is called (one call at a time)
DataInitialize ==
    /\ marketDataService.pc \in {"idle", "done"}
    /\ marketDataService.inits < MaxInits
    /\ marketDataService' = [marketDataService EXCEPT
                               !.pc = "instruments", !.inits = @ + 1,
                               !.initResult = << >>, !.lastCall = << >>]
    /\ UNCHANGED << clock, feed, enableAutoTrading, quote, isRunning, isPaused,
                    executionTimer, orphanTimers, ticks, starting, strategy,
                    risk, dailyStats, lastResult, stopDone, lastCheck, pnlLog,
                    orderManager, bracketOrder,
                    closePositionsOnStop, stopCalls >>

\* kite.getInstruments answers: loadInstrumentTokens finishes,
\* startRealTimeData runs and loadHistoricalData asks for the first
\* symbol's history
InstrumentsAnswer ==
    /\ marketDataService.pc = "instruments"
    /\ \E answer \in InstrumentAnswers :
         LET loaded == [marketDataService EXCEPT
                           !.marketData = loadInstrumentTokens(marketDataService, answer)]
             started == startRealTimeData(loaded)
         IN marketDataService' =
              [started EXCEPT !.pc = "history",
                              !.pending = KeysOf(DOMAIN started.marketData),
                              !.lastCall = << >>]
    /\ UNCHANGED << clock, feed, enableAutoTrading, quote, isRunning, isPaused,
                    executionTimer, orphanTimers, ticks, starting, strategy,
                    risk, dailyStats, lastResult, stopDone, lastCheck, pnlLog,
                    orderManager, bracketOrder,
                    closePositionsOnStop, stopCalls >>

\* kite.getHistoricalData answers for the next symbol; after the last one
\* initialize returns success
HistoryAnswer ==
    /\ marketDataService.pc = "history"
    /\ \E answer \in HistoryAnswers :
         LET symbol == Head(marketDataService.pending)
             stored == IF answer = "data"
                       THEN storeHistoricalData(marketDataService, symbol,
                                                HistoricalData(marketDataService.history))
                       ELSE marketDataService
             last == Tail(marketDataService.pending) = << >>
         IN marketDataService' =
              [stored EXCEPT !.pending = Tail(@),
                             !.pc = IF last THEN "done" ELSE "history",
                             !.initResult = IF last THEN << [ success |-> TRUE ] >> ELSE << >>,
                             !.lastCall = << >>]
    /\ UNCHANGED << clock, feed, enableAutoTrading, quote, isRunning, isPaused,
                    executionTimer, orphanTimers, ticks, starting, strategy,
                    risk, dailyStats, lastResult, stopDone, lastCheck, pnlLog,
                    orderManager, bracketOrder,
                    closePositionsOnStop, stopCalls >>

\* a minute of wall-clock time passes
MinutePasses ==
    /\ marketDataService.minute < StartMinute + MaxMinutes
    /\ marketDataService' = [marketDataService EXCEPT !.minute = @ + 1, !.lastCall = << >>]
    /\ UNCHANGED << clock, feed, enableAutoTrading, quote, isRunning, isPaused,
                    executionTimer, orphanTimers, ticks, starting, strategy,
                    risk, dailyStats, lastResult, stopDone, lastCheck, pnlLog,
                    orderManager, bracketOrder,
                    closePositionsOnStop, stopCalls >>

\* setTimeout(updateData, updateInterval) fires: updateData returns when
\* the service is not connected, otherwise it asks for the quotes
PollTimer ==
    \E loop \in BagToSet(marketDataService.pollLoops) :
       /\ loop.at = "timer"
       /\ marketDataService' =
            [marketDataService EXCEPT
               !.pollLoops = IF marketDataService.isConnected
                             THEN (@ (-) SetToBag({loop}))
                                    (+) SetToBag({[loop EXCEPT !.at = "quote"]})
                             ELSE @ (-) SetToBag({loop}),
               !.lastCall = << >>]
       /\ UNCHANGED << clock, feed, enableAutoTrading, quote, isRunning, isPaused,
                       executionTimer, orphanTimers, ticks, starting, strategy,
                       risk, dailyStats, lastResult, stopDone, lastCheck, pnlLog,
                       orderManager, bracketOrder,
                    closePositionsOnStop, stopCalls >>

\* the quote updateData uses for one symbol: the venue's quote, the demo
\* quote made when getQuote threw, or the fallback made from the symbol's
\* last price when the quotes hold nothing for its token
QuoteFor(ds, loop, answer, choice, symbol) ==
    LET data == ds.marketData[symbol]
    IN IF answer = "all" /\ data.token \in loop.tokens
       THEN [ ltp |-> VenuePrices[choice], open |-> OpenPrice ]
       ELSE IF answer = "throws" /\ data.token \in loop.tokens
       THEN [ ltp |-> DemoLastPrice + DemoVariations[choice], open |-> DemoLastPrice - 50 ]
       ELSE [ ltp |-> data.lastPrice + FallbackVariations[choice],
              open |-> data.lastPrice - 25 ]

\* updateData's loop over marketData.entries()
RECURSIVE UpdateAll(_, _, _, _, _)
UpdateAll(ds, loop, answer, choice, symbols) ==
    IF symbols = << >> THEN ds
    ELSE LET q == QuoteFor(ds, loop, answer, choice, Head(symbols))
         IN UpdateAll(serviceUpdateMarketData(ds, Head(symbols), q.ltp, q.open,
                                              DemoVolume, ds.polls + 1),
                      loop, answer, choice, Tail(symbols))

\* kite.getQuote answers an updateData: every symbol is updated and the
\* next updateData is scheduled
QuoteAnswer ==
    /\ marketDataService.polls < marketDataService.maxPolls
    /\ \E loop \in BagToSet(marketDataService.pollLoops) :
         /\ loop.at = "quote"
         /\ \E answer \in QuoteAnswers, choice \in 1..marketDataService.choices :
              LET updated == UpdateAll(marketDataService, loop, answer, choice,
                                       KeysOf(DOMAIN marketDataService.marketData))
              IN marketDataService' =
                   [updated EXCEPT
                      !.pollLoops = (@ (-) SetToBag({loop}))
                                      (+) SetToBag({[loop EXCEPT !.at = "timer"]}),
                      !.polls = @ + 1,
                      !.failures = IF answer = "throws" THEN @ + 1 ELSE 0,
                      !.lastCall = << >>]
    /\ UNCHANGED << clock, feed, enableAutoTrading, quote, isRunning, isPaused,
                    executionTimer, orphanTimers, ticks, starting, strategy,
                    risk, dailyStats, lastResult, stopDone, lastCheck, pnlLog,
                    orderManager, bracketOrder,
                    closePositionsOnStop, stopCalls >>

\* marketData.disconnect()
DataDisconnect ==
    /\ marketDataService.isConnected
    /\ marketDataService' = [marketDataService EXCEPT !.isConnected = FALSE,
                                                     !.lastCall = << >>]
    /\ UNCHANGED << clock, feed, enableAutoTrading, quote, isRunning, isPaused,
                    executionTimer, orphanTimers, ticks, starting, strategy,
                    risk, dailyStats, lastResult, stopDone, lastCheck, pnlLog,
                    orderManager, bracketOrder,
                    closePositionsOnStop, stopCalls >>

\* marketData.getCandleData(symbol, timeframe, limit)
GetCandleDataCall ==
    /\ \E symbol \in DOMAIN marketDataService.marketData, timeframe \in Timeframes,
          limit \in Limits :
         marketDataService' =
           [marketDataService EXCEPT !.lastCall =
              << [ op |-> "getCandleData", symbol |-> symbol, timeframe |-> timeframe,
                   limit |-> limit, minutes |-> 0,
                   input |-> CandlesOf(marketDataService, symbol),
                   output |-> getCandleData(marketDataService, symbol, timeframe, limit) ] >>]
    /\ UNCHANGED << clock, feed, enableAutoTrading, quote, isRunning, isPaused,
                    executionTimer, orphanTimers, ticks, starting, strategy,
                    risk, dailyStats, lastResult, stopDone, lastCheck, pnlLog,
                    orderManager, bracketOrder,
                    closePositionsOnStop, stopCalls >>

\* marketData.aggregateCandles(candles, minutes) on the last limit candles
\* stored for a symbol
AggregateCandlesCall ==
    /\ \E symbol \in DOMAIN marketDataService.marketData, limit \in Limits,
          minutes \in GroupSizes :
         LET candles == getCandleData(marketDataService, symbol, "minute", limit)
         IN marketDataService' =
              [marketDataService EXCEPT !.lastCall =
                 << [ op |-> "aggregateCandles", symbol |-> symbol, timeframe |-> "minute",
                      limit |-> limit, minutes |-> minutes, input |-> candles,
                      output |-> aggregateCandles(candles, minutes) ] >>]
    /\ UNCHANGED << clock, feed, enableAutoTrading, quote, isRunning, isPaused,
                    executionTimer, orphanTimers, ticks, starting, strategy,
                    risk, dailyStats, lastResult, stopDone, lastCheck, pnlLog,
                    orderManager, bracketOrder,
                    closePositionsOnStop, stopCalls >>

NextData ==
    \/ DataInitialize
    \/ InstrumentsAnswer
    \/ HistoryAnswer
    \/ MinutePasses
    \/ PollTimer
    \/ QuoteAnswer
    \/ DataDisconnect

SpecData == InitData /\ [][NextData]_vars

\* the service against a venue that holds more than maxCandles minute
\* candles of history
SpecRetention == InitRetention /\ [][NextData]_vars

\* the service with its candle queries, on the candles initialize loaded
NextCandles ==
    \/ DataInitialize
    \/ InstrumentsAnswer
    \/ HistoryAnswer
    \/ GetCandleDataCall
    \/ AggregateCandlesCall

SpecCandles == InitCandles /\ [][NextCandles]_vars

\* ====================================== OrderManager.monitorOrder on its own
\* placeOrder called with valid parameters, one call at a time, and the
\* monitoring of the orders it registers: the venue answers every status
\* request and every timer fires.
MaxMonitored == 1
MonitoredParams ==
    [ symbol |-> "NIFTY", exchange |-> "NSE", transaction_type |-> "BUY",
      quantity |-> 20, order_type |-> "MARKET", product |-> "MIS",
      price |-> 0, trigger_price |-> 0 ]

\* orderManager.placeOrder(params) with valid parameters
placeValidOrder ==
    /\ orderManager.pc \in {"idle", "returned"}
    /\ Len(orderManager.orderHistory) < MaxMonitored
    /\ orderManager' = placeOrderTry([orderManager EXCEPT
                            !.params = MonitoredParams, !.retryCount = 0,
                            !.venueCalls = 0, !.delays = 0, !.result = << >>])
    /\ lastResult' = "NONE"
    /\ lastCheck' = << >>
    /\ UNCHANGED << clock, feed, enableAutoTrading, quote, isRunning, isPaused,
                    executionTimer, orphanTimers, ticks, starting, strategy,
                    risk, dailyStats, stopDone, pnlLog, bracketOrder,
                    marketDataService,
                    closePositionsOnStop, stopCalls >>

\* getOrderStatus answers a monitor callback
StatusAnswer ==
    /\ \E orderId \in DOMAIN orderManager.monitors :
         /\ orderManager.monitors[orderId].at = "status"
         /\ \E answer \in StatusAnswers, latency \in Latencies :
              orderManager' = monitor(orderManager, orderId, answer, latency)
    /\ lastResult' = "NONE"
    /\ lastCheck' = << >>
    /\ UNCHANGED << clock, feed, enableAutoTrading, quote, isRunning, isPaused,
                    executionTimer, orphanTimers, ticks, starting, strategy,
                    risk, dailyStats, stopDone, pnlLog, bracketOrder,
                    marketDataService,
                    closePositionsOnStop, stopCalls >>

\* setTimeout(monitor, checkInterval) fires
MonitorTimer ==
    /\ \E orderId \in DOMAIN orderManager.monitors :
         /\ orderManager.monitors[orderId].at = "timer"
         /\ orderManager' = [orderManager EXCEPT
                                !.monitors[orderId].at = "status",
                                !.monitors[orderId].elapsed = @ + checkInterval]
    /\ lastResult' = "NONE"
    /\ lastCheck' = << >>
    /\ UNCHANGED << clock, feed, enableAutoTrading, quote, isRunning, isPaused,
                    executionTimer, orphanTimers, ticks, starting, strategy,
                    risk, dailyStats, stopDone, pnlLog, bracketOrder,
                    marketDataService,
                    closePositionsOnStop, stopCalls >>

NextMonitor ==
    \/ placeValidOrder
    \/ VenueAnswer
    \/ delay
    \/ StatusAnswer
    \/ MonitorTimer

SpecMonitor ==
    Init /\ [][NextMonitor]_vars /\ WF_vars(StatusAnswer) /\ WF_vars(MonitorTimer)

\* ===================================================================== claims
\* the strategy's execute was entered in the step just taken
ExecuteBegan == lastResult \in {"NO_ACTION", "WAITING", "MONITORING", "TARGET_HIT",
                                "STOP_LOSS_HIT", "SUBMITTED"}
\* an entry order was handed to the order gateway in the step
EntrySubmitted == BagCardinality(ticks') > BagCardinality(ticks)
\* entry orders in flight
OrdersInFlight == BagCardinality(ticks)
PositionOpen == strategy.currentPosition # NoPosition
\* the verdict the risk governor gives the strategy in the current state
RiskPasses == checkDailyLimits(risk, Num(strategy.dailyPnL), Len(strategy.dailyTrades)).canTrade
\* the clock is inside the trading window 10:00 - 15:15 of its day
InWindow == /\ clock >= DayStart(clock) + T(10, 0, 0)
            /\ clock =< DayStart(clock) + T(15, 15, 0)
\* the strategy is in cooldown and the candle boundary has not been reached
CoolingDown == strategy.waitingForCandle /\ clock < strategy.candleEndTime
LastPrice == quote[1].ltp
LastExit == strategy.dailyTrades[Len(strategy.dailyTrades)].exitReason

\* C1: under every interleaving of start, stop, pause, resume with ticks and
\* timers, a running engine has at most one live execute callback (pending
\* timer or suspended tick), so two tick loops never run side by side.
C1_SingleLoop == isRunning => LoopCount =< 1

\* C2: once a stop() has succeeded and until the next successful start(),
\* executionTimer is null, no execute timer is pending and no strategy
\* execution begins.
C2_StoppedIsQuiet ==
    stopDone => /\ executionTimer = "null"
                /\ PendingTimers = 0
                /\ ~ExecuteBegan

\* C3: an entry order is never in flight together with another entry order
\* or with an open position: at most one entry is outstanding at any time.
C3_SingleEntry == OrdersInFlight + (IF PositionOpen THEN 1 ELSE 0) =< 1

ExpectedMultiplier(trades) ==
    IF Len(trades) > 0 /\ trades[Len(trades)].exitReason = "TARGET_HIT"
    THEN followUpSizeReduction ELSE FullSize
\* the multiplier calculatePositionSize will apply in the current state
AppliedMultiplier(st) ==
    IF IsNum(st.nextPositionSizeMultiplier) THEN Val(st.nextPositionSizeMultiplier)
    ELSE FullSize

\* C6: a position entered after a TARGET_HIT exit is a follow-up position
\* (follow-up target and stop percentages, isFollowUp true); the first
\* position and one entered after a STOP_LOSS_HIT exit use the initial
\* percentages with isFollowUp false.
C6_FollowUpAfterTarget ==
    PositionOpen =>
        LET pos == strategy.currentPosition[1]
            followUp == Len(strategy.dailyTrades) > 0 /\ LastExit = "TARGET_HIT"
            pt == IF followUp THEN followUpProfitTarget ELSE initialProfitTarget
            sl == IF followUp THEN followUpStopLoss ELSE initialStopLoss
        IN /\ pos.isFollowUp = followUp
           /\ pos.targetPrice * 100 = pos.entryPrice * (PctBase + pt)
           /\ pos.stopLossPrice * 100 = pos.entryPrice * (PctBase - sl)

C8_QuantityFromEntryPrice ==
    \A order \in BagToSet(ticks) :
       \E m \in {FullSize, followUpSizeReduction} :
          order.quantity =
            ((((initialCapital * positionSizePercent) \div 100) \div order.entryPrice) * m)
               \div FullSize

\* C9: while the strategy is in cooldown and the clock is before the candle
\* boundary no entry order is submitted, and a tick inside the window with a
\* passing risk check returns WAITING and changes no strategy state; the
\* first such tick at or after the boundary clears waitingForCandle.  The
\* boundary set by an exit is the first top of the hour after the exit.
C9_CooldownUntilBoundary ==
    [][ /\ CoolingDown => ~EntrySubmitted
        /\ (ExecuteBegan' /\ strategy.waitingForCandle /\ InWindow /\ RiskPasses) =>
             IF clock < strategy.candleEndTime
             THEN /\ lastResult' = "WAITING"
                  /\ strategy' = strategy
             ELSE /\ lastResult' # "WAITING"
                  /\ (strategy'.waitingForCandle =>
                        lastResult' \in {"TARGET_HIT", "STOP_LOSS_HIT"})
        /\ lastResult' \in {"TARGET_HIT", "STOP_LOSS_HIT"} =>
             /\ strategy'.waitingForCandle
             /\ strategy'.candleEndTime > clock
             /\ strategy'.candleEndTime =< clock + 3600
             /\ strategy'.candleEndTime % 3600 = 0
      ]_vars
C9_Witness ==
    /\ lastResult = "WAITING"
    /\ strategy.waitingForCandle
    /\ Len(strategy.dailyTrades) > 0
    /\ clock < strategy.candleEndTime

\* C10: after an exit, once the candle boundary has passed, a tick inside the
\* trading window of the same day with last price above the open, a passing
\* risk check and no position or entry order outstanding submits an entry
\* order.
C10_ReentryAfterBoundary ==
    [][ ( /\ ExecuteBegan'
          /\ Len(strategy.dailyTrades) > 0
          /\ strategy.waitingForCandle
          /\ clock >= strategy.candleEndTime
          /\ DayStart(clock) = DayStart(strategy.candleEndTime - 3600)
          /\ InWindow
          /\ RiskPasses
          /\ ~PositionOpen
          /\ OrdersInFlight = 0
          /\ JsGt(LastPrice, quote[1].open) )
        => (lastResult' = "SUBMITTED" /\ EntrySubmitted)
      ]_vars

\* C11: a strategy tick outside the trading window returns NO_ACTION
\* whatever the strategy state, submits no order, makes no call of
\* checkDailyLimits and leaves the whole strategy state unchanged.
C11_OutsideWindowNoAction ==
    [][ (ExecuteBegan' /\ ~InWindow) =>
            /\ lastResult' = "NO_ACTION"
            /\ lastCheck' = << >>
            /\ strategy' = strategy
            /\ ticks' = ticks
      ]_vars
C11_Witness ==
    /\ lastResult = "NO_ACTION"
    /\ ~InWindow
    /\ PositionOpen
    /\ lastCheck = << >>

\* C12: a blocking verdict of the risk governor does not stop the management
\* of an open position: a tick inside the window with canTrade = false and a
\* position open exits it with TARGET_HIT when the price is at or above the
\* target and with STOP_LOSS_HIT when it is at or below the stop.
C12_BlockedStillManages ==
    [][ (ExecuteBegan' /\ InWindow /\ ~RiskPasses /\ PositionOpen /\ ~CoolingDown) =>
            LET pos == strategy.currentPosition[1]
                price == Val(LastPrice) * Paise
            IN /\ price >= pos.targetPrice => lastResult' = "TARGET_HIT"
               /\ (price < pos.targetPrice /\ price =< pos.stopLossPrice)
                     => lastResult' = "STOP_LOSS_HIT"
      ]_vars

\* C13: checkDailyLimits evaluates daily loss, emergency stop, trade count
\* and consecutive losses in that order and answers with the first that
\* fails: canTrade is false with that check's reason and no warnings, it is
\* true exactly when none fails, and the call leaves the risk governor's
\* state as it was.
C13_ChecksInOrder ==
    [][ lastCheck' # << >> =>
          LET k == lastCheck'[1]
              loss == Abs(Val(k.currentPnL)) >= Val(risk.dailyLossLimit)
              emergency == Abs(Val(k.currentPnL)) >= Val(risk.emergencyStopLimit)
              count == k.tradesCount >= maxTradesPerDay
              streak == risk.consecutiveLosses >= maxConsecutiveLosses
              first == IF loss THEN "Daily loss limit reached"
                       ELSE IF emergency THEN "Emergency stop loss triggered"
                       ELSE IF count THEN "Maximum trades per day reached"
                       ELSE "Maximum consecutive losses reached"
          IN /\ k.result.canTrade = ~(loss \/ emergency \/ count \/ streak)
             /\ ~k.result.canTrade => (k.result.reason = first /\ k.result.warnings = {})
             /\ risk' = risk
      ]_vars
C13_Witness ==
    /\ lastCheck # << >>
    /\ lastCheck[1].result.reason = "Maximum trades per day reached"
    /\ risk.consecutiveLosses >= maxConsecutiveLosses

\* sum of a log of pnl values, length of its trailing run of losses, and the
\* least of 0 and its running sums
RECURSIVE SumPnl(_)
SumPnl(log) ==
    IF log = << >> THEN 0
    ELSE SumPnl(SubSeq(log, 1, Len(log) - 1)) + Val(log[Len(log)])
RECURSIVE TrailingLosses(_)
TrailingLosses(log) ==
    IF log = << >> THEN 0
    ELSE IF Val(log[Len(log)]) < 0
    THEN 1 + TrailingLosses(SubSeq(log, 1, Len(log) - 1))
    ELSE 0
RECURSIVE MinRunning(_)
MinRunning(log) ==
    IF log = << >> THEN 0
    ELSE LET before == MinRunning(SubSeq(log, 1, Len(log) - 1))
         IN IF SumPnl(log) < before THEN SumPnl(log) ELSE before

\* C20: after any sequence of updateDailyStats calls since the last reset,
\* tradesCount is the number of calls, totalPnL the sum of the trades' pnl,
\* consecutiveLosses the length of the trailing run of trades with pnl < 0,
\* and maxDrawdown the least of 0 and every running total.
C20_StatsFollowTrades ==
    /\ risk.tradesCount = Len(pnlLog)
    /\ risk.totalPnL = Num(SumPnl(pnlLog))
    /\ risk.consecutiveLosses = TrailingLosses(pnlLog)
    /\ risk.maxDrawdown = Num(MinRunning(pnlLog))
C20_Witness ==
    /\ Len(pnlLog) = 4
    /\ Val(pnlLog[1]) < 0
    /\ Val(pnlLog[2]) > 0
    /\ risk.consecutiveLosses = 2

\* the running or finished placeOrder call has valid parameters
ValidParams == orderManager.params # << >> /\ validateOrderParams(orderManager.params) = {}
\* ... has parameters that fail validation
InvalidParams == orderManager.params # << >> /\ validateOrderParams(orderManager.params) # {}
\* the call has returned a failure
ReturnedFailure == orderManager.pc = "returned" /\ ~orderManager.result[1].success
\* the step adds an order to activeOrders or orderHistory
OrderAdded ==
    \/ orderManager'.activeOrders # orderManager.activeOrders
    \/ orderManager'.orderHistory # orderManager.orderHistory

\* C14 as stated: with retryAttempts = N and every submission failing,
\* placeOrder submits to the venue exactly N times, waits between the attempts
\* (N - 1 delays), and returns success = false with attempts = N; no order
\* is added to activeOrders or orderHistory.
C14_ExactlyNAttempts ==
    [][ /\ (ReturnedFailure' /\ ValidParams') =>
             /\ orderManager'.venueCalls = retryAttempts
             /\ orderManager'.delays = retryAttempts - 1
             /\ orderManager'.result[1].attempts = retryAttempts
        /\ OrderAdded => (orderManager'.pc = "returned" /\ orderManager'.result[1].success)
      ]_vars

\* C14 amended: retryAttempts counts the retries.  With retryAttempts = N and
\* every submission failing, placeOrder submits to the venue N + 1 times,
\* with one delay before each of the N retries, and returns success = false
\* with attempts = N + 1; orders are added to activeOrders and orderHistory
\* only by a call that returns success.
C14_FirstAttemptPlusNRetries ==
    [][ /\ (ReturnedFailure' /\ ValidParams') =>
             /\ orderManager'.venueCalls = retryAttempts + 1
             /\ orderManager'.delays = retryAttempts
             /\ orderManager'.result[1].attempts = retryAttempts + 1
        /\ OrderAdded => (orderManager'.pc = "returned" /\ orderManager'.result[1].success)
      ]_vars
C14_Witness ==
    /\ ReturnedFailure
    /\ ValidParams
    /\ orderManager.venueCalls = retryAttempts + 1

\* C15: placeOrder with parameters that fail validation never calls the
\* venue, waits no retry delay and returns the failure after one attempt.
C15_ValidationFailsFast ==
    InvalidParams =>
        /\ orderManager.venueCalls = 0
        /\ orderManager.delays = 0
        /\ orderManager.pc = "returned"
        /\ ~orderManager.result[1].success
        /\ orderManager.result[1].attempts = 1

\* a suspended enterPosition got its answer from placeOrder in the step
EntryAnswered == BagCardinality(ticks') < BagCardinality(ticks)
\* the strategy returned undefined: handleStrategyResult reads result.action
\* and throws, executeStrategy catches
DispatchRaised == lastResult = "UNDEFINED"

C17_ResultIsAnAction ==
    [][ /\ lastResult' \in {"NONE", "SUBMITTED", "POSITION_ENTERED", "TARGET_HIT",
                            "STOP_LOSS_HIT", "MONITORING", "WAITING", "NO_ACTION",
                            "ERROR"}
        /\ (EntryAnswered /\ strategy' = strategy) => lastResult' = "ERROR"
        /\ ~DispatchRaised'
      ]_vars

\* C18: the cumulative P&L of the risk governor and of the engine's daily
\* statistics equal the sum of the realized pnl of the trades the strategy
\* closed (strategy.state.dailyPnL).
C18_PnlAgrees ==
    /\ risk.totalPnL = Num(strategy.dailyPnL)
    /\ dailyStats.totalPnL = Num(strategy.dailyPnL)

\* C19: when a tick has completed and the realized P&L of the day's closed
\* trades has magnitude >= emergencyStopLimit, the engine is stopped.
C19_EmergencyStop ==
    ( /\ lastResult \in {"POSITION_ENTERED", "TARGET_HIT", "STOP_LOSS_HIT",
                          "MONITORING", "WAITING", "NO_ACTION", "ERROR", "UNDEFINED"}
      /\ Abs(strategy.dailyPnL) >= Val(risk.emergencyStopLimit) )
    => ~isRunning

\* a step of SpecRisk that is a call of resetDailyStats
RiskResetStep == lastCheck' = << >> /\ pnlLog' = << >>

\* C21: resetDailyStats makes the new starting capital the previous capital
\* plus the day's cumulative P&L, zeroes totalPnL, tradesCount,
\* consecutiveLosses and maxDrawdown and recomputes both limits; in every
\* state of the risk manager dailyLossLimit is maxDailyLossPercent percent
\* and emergencyStopLimit emergencyStopLossPercent percent of initialCapital.
C21_RolloverCarriesCapital ==
    [][ /\ RiskResetStep =>
              /\ risk'.startingCapital = Num(Val(risk.initialCapital) + SumPnl(pnlLog))
              /\ risk'.initialCapital = risk'.startingCapital
              /\ risk'.totalPnL = Num(0)
              /\ risk'.tradesCount = 0
              /\ risk'.consecutiveLosses = 0
              /\ risk'.maxDrawdown = Num(0)
        /\ \A rk \in {risk, risk'} :
              /\ Val(rk.dailyLossLimit) * 100 = Val(rk.initialCapital) * maxDailyLossPercent
              /\ Val(rk.emergencyStopLimit) * 100
                    = Val(rk.initialCapital) * emergencyStopLossPercent
      ]_vars
C21_Witness ==
    /\ pnlLog = << >>
    /\ risk.tradesCount = 0
    /\ Val(risk.startingCapital) = (initialCapital + 2000) * Paise
    /\ Val(risk.dailyLossLimit) = 2040 * Paise
    /\ Val(risk.emergencyStopLimit) = 5100 * Paise
    /\ RiskInit.dailyLossLimit = Num(2000 * Paise)
    /\ RiskInit.emergencyStopLimit = Num(5000 * Paise)

\* C22: after TradingEngine.resetDailyStats, and until a trade is closed,
\* the daily P&L and the trade count that a tick's checkDailyLimits is
\* called with are 0, so a block by the previous day's loss or trade count
\* is lifted.
C22_RolloverLiftsBlock ==
    [][ (lastCheck' # << >> /\ pnlLog = << >>) =>
           /\ lastCheck'[1].currentPnL = Num(0)
           /\ lastCheck'[1].tradesCount = 0
      ]_vars

\* initialize() has been called (it always succeeds: the market data
\* service falls back to demo instruments)
Initialized == quote # NoData

\* C28: the engine is running only after a successful initialize().
C28_RunningOnlyInitialized == isRunning => Initialized

\* C23: no entry order is submitted whose value, quantity x entry price,
\* exceeds maxPositionSizePercent percent of the capital.
C23_PositionSizeLimit ==
    \A order \in BagToSet(ticks) :
       order.quantity * order.entryPrice * 100 =< initialCapital * maxPositionSizePercent

\* an exit order's placeOrder has been called in the running or finished
\* placeBracketOrder call
ExitSubmitted == \E i \in DOMAIN bracketOrder.calls : bracketOrder.calls[i] \in {"TARGET", "SL"}

\* C27: placeBracketOrder places the target and stop orders only after the
\* entry order has been seen COMPLETE; a call that returns without having
\* seen it COMPLETE (entry submission failed, entry cancelled, rejected or
\* not filled within the timeout) has placed no exit order and returns
\* success = false.
C27_ExitsOnlyAfterFill ==
    /\ ExitSubmitted => bracketOrder.observedComplete
    /\ (bracketOrder.pc = "returned" /\ ~bracketOrder.observedComplete) =>
          /\ ~ExitSubmitted
          /\ ~bracketOrder.result[1].success
    /\ (bracketOrder.pc = "returned" /\ bracketOrder.observedComplete) =>
          bracketOrder.calls = << "ENTRY", "TARGET", "SL" >>
C27_Witness ==
    /\ bracketOrder.pc = "returned"
    /\ bracketOrder.elapsed > fillTimeout
    /\ ~bracketOrder.observedComplete
    /\ ~bracketOrder.result[1].success
    /\ bracketOrder.calls = << "ENTRY" >>

\* the timestamps of a sequence of candles
Timestamps(candles) == { candles[i].timestamp : i \in DOMAIN candles }

\* C24: once initialize has returned, and after any number of refreshes,
\* each instrument holds at most maxCandles candles, and a candle that
\* leaves an instrument's candles is the one with the oldest timestamp.
C24_RetentionLimit ==
    [][ /\ marketDataService'.pc = "done" =>
             \A symbol \in DOMAIN marketDataService'.candleData :
                Len(marketDataService'.candleData[symbol]) =< maxCandles
        /\ \A symbol \in DOMAIN marketDataService.candleData :
             \A t \in Timestamps(marketDataService.candleData[symbol])
                        \ Timestamps(CandlesOf(marketDataService', symbol)) :
                \A u \in Timestamps(marketDataService.candleData[symbol]) : t =< u ]_vars

\* the sum of the volumes of candles[from..to]
RECURSIVE VolumeBetween(_, _, _)
VolumeBetween(candles, from, to) ==
    IF from > to THEN 0 ELSE candles[from].volume + VolumeBetween(candles, from + 1, to)

\* the call of aggregateCandles just made, if any
AggregateCalls ==
    { call \in { marketDataService.lastCall[i] : i \in DOMAIN marketDataService.lastCall } :
        call.op = "aggregateCandles" }

\* C25: aggregateCandles(candles, n) returns one candle per consecutive
\* group of n candles (the last group may be shorter): timestamp and open
\* of the group's first candle, close of its last, the highest high, the
\* lowest low and the sum of the volumes; 60 candles with n = 60 give
\* exactly one candle.
C25_AggregateGroups ==
    \A call \in AggregateCalls :
       LET candles == call.input
           n == call.minutes
           groups == (Len(candles) + n - 1) \div n
           First(g) == (g - 1) * n + 1
           Last(g) == IF g * n < Len(candles) THEN g * n ELSE Len(candles)
       IN /\ Len(call.output) = groups
          /\ (Len(candles) = 60 /\ n = 60) => Len(call.output) = 1
          /\ \A g \in 1..groups :
               /\ call.output[g].timestamp = candles[First(g)].timestamp
               /\ call.output[g].open = candles[First(g)].open
               /\ call.output[g].close = candles[Last(g)].close
               /\ \E i \in First(g)..Last(g) : call.output[g].high = candles[i].high
               /\ \A i \in First(g)..Last(g) : candles[i].high =< call.output[g].high
               /\ \E i \in First(g)..Last(g) : call.output[g].low = candles[i].low
               /\ \A i \in First(g)..Last(g) : call.output[g].low =< candles[i].low
               /\ call.output[g].volume = VolumeBetween(candles, First(g), Last(g))

\* sixty minute candles were aggregated by 60 into one hour candle that
\* holds more volume than the first minute
C25_Witness ==
    \E call \in AggregateCalls :
       /\ call.minutes = 60
       /\ Len(call.input) = 60
       /\ Len(call.output) = 1
       /\ call.output[1].close = call.input[60].close
       /\ call.output[1].volume > call.input[1].volume

\* the call of getCandleData just made, if any
CandleDataCalls ==
    { call \in { marketDataService.lastCall[i] : i \in DOMAIN marketDataService.lastCall } :
        call.op = "getCandleData" }

\* the minutes in a candle of a timeframe
MinutesOf(timeframe) ==
    IF timeframe = "hour" THEN 60 ELSE IF timeframe = "day" THEN 60 * 24 ELSE 1

\* C26: getCandleData(symbol, timeframe, limit) returns candles in ascending
\* time order; for 'minute' they are the last limit stored candles, and for
\* 'hour' or 'day' with at least limit hours (days) of minute candles stored
\* it returns limit candles.
C26_LimitAtGranularity ==
    \A call \in CandleDataCalls :
       /\ \A i, j \in DOMAIN call.output :
            i < j => call.output[i].timestamp < call.output[j].timestamp
       /\ call.timeframe = "minute" => call.output = SliceLast(call.input, call.limit)
       /\ Len(call.input) >= call.limit * MinutesOf(call.timeframe) =>
            Len(call.output) = call.limit

\* C29: once the venue's quote requests have failed more than
\* maxReconnectAttempts times in a row, getMarketStatus().isConnected is
\* false, and getCurrentData still returns a quote for every resolved symbol.
C29_FailuresEndConnectivity ==
    marketDataService.failures > maxReconnectAttempts =>
       /\ ~getMarketStatusIsConnected(marketDataService)
       /\ \A symbol \in DOMAIN marketDataService.marketData :
            getCurrentData(marketDataService, symbol) # << >>

\* initialize() has returned success
InitializeSucceeded(ds) == ds.pc = "done" /\ ds.initResult = << [ success |-> TRUE ] >>

\* C30: after initialize() has returned success getCurrentData is defined
\* for every configured instrument, whatever the venue answered, and every
\* refresh updates the quote of every resolved symbol, whatever the venue
\* answered to the quote request.
C30_AlwaysHasData ==
    [][ /\ InitializeSucceeded(marketDataService') =>
             \A i \in DOMAIN marketDataService'.instruments :
                getCurrentData(marketDataService', marketDataService'.instruments[i]) # << >>
        /\ marketDataService'.polls # marketDataService.polls =>
             \A symbol \in DOMAIN marketDataService'.marketData :
                marketDataService'.marketData[symbol].lastUpdate = marketDataService'.polls ]_vars

\* the last price has reached the open position's target or stop
ExitDue ==
    /\ PositionOpen
    /\ quote # NoData
    /\ IsNum(LastPrice)
    /\ \/ Val(LastPrice) * Paise >= strategy.currentPosition[1].targetPrice
       \/ Val(LastPrice) * Paise =< strategy.currentPosition[1].stopLossPrice

\* C31: while the engine is paused no entry order is submitted, and a tick
\* of the paused, running engine (market open, auto trading on, inside the
\* window, risk check passing) whose price has reached the open position's
\* target or stop closes the position and records the trade.
C31_PausedStillMonitors ==
    [][ /\ EntrySubmitted => ~isPaused'
        /\ (TimerFire /\ isRunning /\ isPaused /\ isMarketOpen(clock)
             /\ enableAutoTrading /\ InWindow /\ RiskPasses /\ ExitDue) =>
            /\ strategy'.currentPosition = NoPosition
            /\ Len(strategy'.dailyTrades) = Len(strategy.dailyTrades) + 1 ]_vars

\* C32: a checkDailyLimits call that does not block appends the loss warning
\* exactly when abs(pnl) is above 70 percent of dailyLossLimit and the trade
\* warning exactly when the trade count is above 80 percent of
\* maxTradesPerDay.
C32_WarningsAboveThresholds ==
    [][ (lastCheck' # << >> /\ lastCheck'[1].result.canTrade) =>
          LET k == lastCheck'[1]
          IN /\ ("Approaching daily loss limit" \in k.result.warnings)
                  = (Abs(Val(k.currentPnL)) * 10 > Val(risk.dailyLossLimit) * 7)
             /\ ("Approaching daily trade limit" \in k.result.warnings)
                  = (k.tradesCount * 10 > maxTradesPerDay * 8)
      ]_vars

\* C40: whenever placeBracketOrder has returned success = true, the target
\* order and the stop order were both accepted by the venue (targetOrderId
\* and stopLossOrderId are not null).
C40_SuccessIsFullyBracketed ==
    (bracketOrder.pc = "returned" /\ bracketOrder.result[1].success) =>
        (bracketOrder.result[1].target /\ bracketOrder.result[1].stopLoss)

\* C33: the monitoring of every registered order terminates: a poll that
\* observes COMPLETE, CANCELLED or REJECTED ends it, any other poll ends it
\* exactly when more than orderTimeout has elapsed, an ended monitoring
\* never polls again, and every monitoring that starts ends.
C33_MonitorTerminates ==
    /\ [][ \A orderId \in DOMAIN orderManager.monitors :
             LET before == orderManager.monitors[orderId]
                 after == orderManager'.monitors[orderId]
             IN after # before =>
                  /\ before.at # "ended"
                  /\ before.at = "status" =>
                       (after.at = "ended") = (after.final \/ after.elapsed > orderTimeout)
                  /\ before.at = "timer" =>
                       (after.at = "status" /\ after.elapsed = before.elapsed + checkInterval)
           ]_vars
    /\ \A orderId \in 1..MaxMonitored :
          (orderId \in DOMAIN orderManager.monitors)
             ~> (orderId \in DOMAIN orderManager.monitors
                   /\ orderManager.monitors[orderId].at = "ended")

\* a monitoring that saw only unfinished statuses and failures has ended by
\* its timeout
C33_Witness ==
    \E orderId \in DOMAIN orderManager.monitors :
       /\ orderManager.monitors[orderId].at = "ended"
       /\ ~orderManager.monitors[orderId].final
       /\ orderManager.monitors[orderId].elapsed > orderTimeout

\* C34: a tick that finds the market session closed stops the engine and
\* does not invoke the strategy: after it isRunning is false, no execute
\* timer is pending, the stopped event has been emitted, and the strategy's
\* state and the orders in flight are as before
ClosedTick == TimerFire /\ isRunning /\ ~isMarketOpen(clock)

C38_PausedOnlyWhileRunning == isPaused => isRunning

\* C36: the pnl the strategy records for a trade has the sign of its exit:
\* positive for every trade recorded with TARGET_HIT, negative for every
\* trade recorded with STOP_LOSS_HIT
C36_PnlHasSignOfExit ==
    \A i \in DOMAIN strategy.dailyTrades :
       LET trade == strategy.dailyTrades[i]
       IN /\ trade.exitReason = "TARGET_HIT" => trade.pnl > 0
          /\ trade.exitReason = "STOP_LOSS_HIT" => trade.pnl < 0

\* the market data service's cached quote: last price and session open
CachedLastPrice == quote[1].lastPrice
CachedOpen == quote[1].ohlcOpen

\* C37: with the market data service as the engine's feed, a strategy tick
\* in the entry minute whose cached last price is above the cached session
\* open (risk check passing, no position, no cooldown) submits an entry
\* order, and a tick whose cached last price has reached the open
\* position's target or stop closes the position.
C37_CachedQuoteDrivesStrategy ==
    [][ (feed = "service" /\ ExecuteBegan' /\ quote # NoData /\ InWindow
           /\ RiskPasses /\ ~CoolingDown /\ IsNum(CachedLastPrice)) =>
          /\ (~PositionOpen /\ getHours(clock) = 10 /\ getMinutes(clock) = 0
                /\ IsNum(CachedOpen) /\ Val(CachedLastPrice) > Val(CachedOpen)) =>
               EntrySubmitted
          /\ (PositionOpen
                /\ (\/ Val(CachedLastPrice) * Paise >= strategy.currentPosition[1].targetPrice
                    \/ Val(CachedLastPrice) * Paise =< strategy.currentPosition[1].stopLossPrice)) =>
               strategy'.currentPosition = NoPosition ]_vars

\* a stop() call returned in the step
StopReturned ==
    \/ BagCardinality(stopCalls') < BagCardinality(stopCalls)
    \/ isRunning /\ ~isRunning' /\ ~closePositionsOnStop

====
